---- MODULE Spec2Model ----
(***************************************************************************)
(* PyROI: atlas region lists (pyroi/atlases.py) and the assembly of the    *)
(* extraction database with its write history (database.py).               *)
(*                                                                         *)
(* build_database is followed from database.py line 49 on, with the atlas  *)
(* object that the class constructor yields for the atlas dictionary.      *)
(* Files are the tables the external mri_segstats runs leave on disk.      *)
(* numpy arrays keep their number of dimensions, since genfromtxt drops    *)
(* dimensions of length one and vstack/hstack refuse unequal shapes.       *)
(***************************************************************************)
EXTENDS Integers, Sequences, FiniteSets, TLC

VARIABLES
    atlasdict,   \* the atlas dictionary of the setup module (cfg.atlases)
    lutids,      \* region ids listed in the atlas's look-up table file
    atlasobj,    \* the atlas object last returned by a constructor, or NoAtlas
    subjects,    \* the subject list of the setup module
    statsfile,   \* statsfile[s][h]: size table of subject s, hemisphere h
    extracted,   \* extracted[a][s][h]: functxt and funcstats of analysis a
    dbfiles,     \* primary database artifact per database name
    archive,     \* archived artifacts, keyed by <<name, date>>
    histfile,    \* the persisted history array (.npy), or NoFile
    clock,       \* wall clock, in minutes
    nedits,      \* number of tables changed outside group_extract so far
    lastcall,    \* the last build_database call and its outcome
    builds,      \* per database name: number of successful writes
    setupdict,   \* one atlas dictionary as written in the setup module
    sourcedir,   \* the files of the dictionary's sourcedir, in glob order
    resolved,    \* what cfg.atlases made of setupdict, or NoAtlas
    inits,       \* init flags of an atlas object and the commands it has run
    run          \* the build_database call under way, statement by statement

vars == <<atlasdict, lutids, atlasobj, subjects, statsfile, extracted, dbfiles,
          archive, histfile, clock, nedits, lastcall, builds, setupdict,
          sourcedir, resolved, inits, run>>

\* the setup dictionary and its resolution
cfgvars == <<setupdict, sourcedir, resolved>>

\* the files of the database directory and the record of calls
dbvars == <<dbfiles, archive, histfile, lastcall, builds>>

-----------------------------------------------------------------------------
(* Bounds of the model *)

MaxSubjects == 2
MaxClock == 2
MaxBuilds == 3
MaxReq == 2
MaxConds == 2
MaxEdits == 1
MaxSources == 2

NoAtlas == [err |-> "none"]

\* no atlas object whose init flags are followed
NoInits == [err |-> "none"]

\* no build_database call under way
NoRun == [pc |-> "idle"]

-----------------------------------------------------------------------------
(* Python lists and strings *)

Min(a, b) == IF a < b THEN a ELSE b

Max(a, b) == IF a < b THEN b ELSE a

RECURSIVE SeqMax(_)
SeqMax(s) == IF s = <<>> THEN 0 ELSE Max(Head(s), SeqMax(Tail(s)))

Range(s) == {s[i] : i \in DOMAIN s}

NoDup(s) == \A i, j \in DOMAIN s : i # j => s[i] # s[j]

RECURSIVE InsertSorted(_, _)
InsertSorted(x, s) ==
    IF s = <<>> THEN <<x>>
    ELSE IF x <= Head(s) THEN <<x>> \o s
    ELSE <<Head(s)>> \o InsertSorted(x, Tail(s))

\* list.sort() on a list of integers
RECURSIVE Sort(_)
Sort(s) == IF s = <<>> THEN <<>> ELSE InsertSorted(Head(s), Sort(Tail(s)))

\* the ascending list of the members of a set of integers (dict.keys() of a
\* dictionary whose keys are small integers)
RECURSIVE SetToSeq(_)
SetToSeq(S) ==
    IF S = {} THEN <<>>
    ELSE LET m == CHOOSE x \in S : \A y \in S : x <= y
         IN <<m>> \o SetToSeq(S \ {m})

DigitChar(d) == <<"0", "1", "2", "3", "4", "5", "6", "7", "8", "9">>[d + 1]

\* "%d" % n as a list of characters
RECURSIVE Digits(_)
Digits(n) == IF n < 10 THEN <<DigitChar(n)>>
             ELSE Digits(n \div 10) \o <<DigitChar(n % 10)>>

\* str.startswith
StartsWith(s, p) == Len(s) >= Len(p) /\ SubSeq(s, 1, Len(p)) = p

\* a value stored into a numpy string array of item size w keeps w characters
Truncate(s, w) == SubSeq(s, 1, Min(Len(s), w))

HemiChars(h) == IF h = "lh" THEN <<"l", "h">> ELSE <<"r", "h">>

\* all lists of pairwise distinct members of S with 1..n elements
DistinctSeqs(S, n) ==
    UNION {{s \in [1..k -> S] : NoDup(s)} : k \in 1..n}

-----------------------------------------------------------------------------
(* Look-up tables: id -> region name *)

\* name of region id in a Freesurfer / HarvardOxford look-up table file
LutName(id) ==
    IF id % 2 = 1 THEN <<"r">> \o Digits(id) \o <<"-", "g", "y", "r">>
    ELSE <<"r">> \o Digits(id)

\* Atlas._sourcenames_to_lutdict
SourcenamesToLutdict(sourcenames) ==
    [i \in 1..Len(sourcenames) |-> sourcenames[i]]

\* a table whose last line repeats the right id of the line before
convtableRepeat ==
    [c \in 1..8 |->
        <<<<10, 49>>, <<11, 50>>, <<12, 51>>, <<13, 52>>,
          <<17, 53>>, <<18, 54>>, <<26, 58>>, <<28, 58>>>>[c]]

convtable ==
    [c \in 1..8 |->
        <<<<10, 49>>, <<11, 50>>, <<12, 51>>, <<13, 52>>,
          <<17, 53>>, <<18, 54>>, <<26, 58>>, <<28, 60>>>>[c]]

AparcLhOffset == 1000

AparcRhOffset == 2000

HOOffset == 55

-----------------------------------------------------------------------------
(* Atlas constructors.  The result is the atlas object, or a record whose   *)
(* err field names the exception the constructor raises.                   *)

Raise(e) == [err |-> e]

AtlasObj(d, iterhemi, regions, all_regions, lutdict) ==
    [err |-> "", atlasname |-> d.atlasname, source |-> d.source,
     manifold |-> d.manifold, iterhemi |-> iterhemi, regions |-> regions,
     all_regions |-> all_regions, lutdict |-> lutdict]

\* FreesurferAtlas.__init__: the region lists of the three Freesurfer atlases
FreesurferAtlas(d, lut) ==
    LET req == d.regions
        lutdict == [id \in lut |-> LutName(id)]
        keys == SetToSeq(lut)
    IN IF d.fname = "aseg.mgz"
       THEN IF \E i \in DOMAIN req : req[i] \notin DOMAIN convtable
            THEN Raise("KeyError")
            ELSE LET regs == [i \in DOMAIN req |-> convtable[req[i]][1]] \o
                             [i \in DOMAIN req |-> convtable[req[i]][2]]
                 IN IF Range(regs) \subseteq lut
                    THEN AtlasObj(d, <<>>, [h \in {"vol"} |-> regs],
                                  [h \in {"vol"} |-> keys], lutdict)
                    ELSE Raise("KeyError")
       ELSE IF d.fname = "aparc.annot"
       THEN LET lh == [i \in DOMAIN req |-> AparcLhOffset + req[i]]
                rh == [i \in DOMAIN req |-> AparcRhOffset + req[i]]
            IN IF Range(lh) \cup Range(rh) \subseteq lut
               THEN AtlasObj(d, <<"lh", "rh">>,
                             [h \in {"lh", "rh"} |-> IF h = "lh" THEN lh ELSE rh],
                             [h \in {"lh", "rh"} |->
                                 IF h = "lh"
                                 THEN SetToSeq({id \in lut : id < AparcRhOffset})
                                 ELSE SetToSeq({id \in lut : id >= AparcRhOffset})],
                             lutdict)
               ELSE Raise("KeyError")
       ELSE IF Range(req) \subseteq lut
            THEN AtlasObj(d, <<"lh", "rh">>, [h \in {"lh", "rh"} |-> req],
                          [h \in {"lh", "rh"} |-> keys], lutdict)
            ELSE Raise("KeyError")

\* HarvardOxfordAtlas.__init__: requested ids followed by requested ids + 55,
\* sorted; the region names are then looked up in the table
HarvardOxfordAtlas(d, lut) ==
    LET req == d.regions
        regs == Sort(req \o [i \in DOMAIN req |-> req[i] + HOOffset])
    IN IF Range(regs) \subseteq lut
       THEN AtlasObj(d, <<>>, [h \in {"vol"} |-> regs], [h \in {"vol"} |-> regs],
                     [id \in lut |-> LutName(id)])
       ELSE Raise("KeyError")

\* SigSurfAtlas.__init__ with Atlas._get_atlas_info_from_sum: d.sourcenames are
\* the region labels of the cluster summary table that pass minsize
SigSurfAtlas(d) ==
    LET names == [i \in DOMAIN d.sourcenames |->
                     HemiChars(d.hemi) \o <<"_">> \o d.sourcenames[i]]
        lutdict == SourcenamesToLutdict(names)
        keys == SetToSeq(DOMAIN lutdict)
    IN AtlasObj(d, <<d.hemi>>, [h \in {d.hemi} |-> keys],
                [h \in {d.hemi} |-> keys], lutdict)

\* LabelAtlas.__init__
LabelAtlas(d) ==
    LET lutdict == SourcenamesToLutdict(d.sourcenames)
        keys == SetToSeq(DOMAIN lutdict)
    IN AtlasObj(d, <<d.hemi>>, [h \in {d.hemi} |-> keys],
                [h \in {d.hemi} |-> keys], lutdict)

\* MaskAtlas.__init__
MaskAtlas(d) ==
    LET lutdict == SourcenamesToLutdict(d.sourcenames)
        keys == SetToSeq(DOMAIN lutdict)
    IN AtlasObj(d, <<>>, [h \in {"vol"} |-> keys], [h \in {"vol"} |-> keys],
                lutdict)

\* init_atlas: the constructor of the dictionary's source kind
init_atlas(d, lut) ==
    IF d.source = "freesurfer" THEN FreesurferAtlas(d, lut)
    ELSE IF d.source = "fsl" THEN HarvardOxfordAtlas(d, lut)
    ELSE IF d.source = "sigsurf" THEN SigSurfAtlas(d)
    ELSE IF d.source = "label" THEN LabelAtlas(d)
    ELSE MaskAtlas(d)

\* the hemisphere scopes of an atlas: "vol" for the flat list of a volume atlas
Scopes(a) == DOMAIN a.regions

-----------------------------------------------------------------------------
(* Atlas dictionaries and look-up table files the model is run on *)

Dict(name, source, manifold, fname, regions, hemi, sourcenames) ==
    [atlasname |-> name, source |-> source, manifold |-> manifold,
     fname |-> fname, regions |-> regions, hemi |-> hemi,
     sourcenames |-> sourcenames]

ReqCodes == 1..MaxReq

\* base names of the label / mask files of a dictionary, in the given order
SourceName(i) == <<<<"l", "h", "p", "f", "c">>, <<"v", "1">>, <<"s", "t", "g">>>>[i]

ReqLists == DistinctSeqs(ReqCodes, MaxReq)

SourceLists == {[i \in 1..k |-> SourceName(i)] : k \in 1..MaxSources}

AtlasDicts ==
    {Dict("aseg", "freesurfer", "volume", "aseg.mgz", r, "", <<>>) : r \in ReqLists}
    \cup {Dict("aparc", "freesurfer", "surface", "aparc.annot", r, "", <<>>) :
             r \in ReqLists}
    \cup {Dict("a2009s", "freesurfer", "surface", "aparc.a2009s.annot", r, "", <<>>) :
             r \in ReqLists}
    \cup {Dict("ho", "fsl", "volume", "", r, "", <<>>) : r \in ReqLists}
    \cup {Dict("mask", "mask", "volume", "", <<>>, "", n) : n \in SourceLists}
    \cup {Dict("label", "label", "surface", "", <<>>, h, n) :
             h \in {"lh", "rh"}, n \in SourceLists}
    \cup {Dict("sig", "sigsurf", "surface", "", <<>>, h, n) :
             h \in {"lh", "rh"}, n \in SourceLists}

\* ids of the HarvardOxford look-up table: the structures of the left
\* hemisphere, and the same structures of the right one, HOOffset higher
HOLutIds == 1..(2 * HOOffset)

\* ids of the look-up table file that goes with a dictionary: the lines of
\* the table that dictionaries requesting the given codes can reach
LutIds(d, codes) ==
    IF d.fname = "aseg.mgz"
    THEN UNION {{convtable[c][1], convtable[c][2]} : c \in codes \cap DOMAIN convtable}
    ELSE IF d.fname = "aparc.annot"
    THEN UNION {{AparcLhOffset + c, AparcRhOffset + c} : c \in codes}
    ELSE IF d.fname = "aparc.a2009s.annot" THEN codes
    ELSE IF d.source = "fsl"
    THEN UNION {{c, c + HOOffset} : c \in codes} \cap HOLutIds
    ELSE {}

LutFile(d) == LutIds(d, ReqCodes)

-----------------------------------------------------------------------------
(* Table cells, text files and numpy arrays *)

Cell(k, w, txt, s, h, id, f) ==
    [k |-> k, w |-> w, txt |-> txt, s |-> s, h |-> h, id |-> id, f |-> f]

\* a Python string given as a word
Word(w) == Cell("word", w, <<>>, "", "", 0, 0)

\* a Python string given by its characters
Text(t) == Cell("text", "", t, "", "", 0, 0)

\* the count of region id of subject s in hemisphere h, before the mask
SizeVal(s, h, id) == Cell("size", "", <<>>, s, h, id, 0)

\* the count of region id of subject s after the functional mask of analysis an
MaskVal(s, h, id) == Cell("mask", "", <<>>, s, h, id, 0)

\* the average of frame f of the source image over region id
FuncVal(s, h, id, f) == Cell("func", "", <<>>, s, h, id, f)

\* a text file: the rows of a whitespace-delimited table
File(rows) == [exists |-> TRUE, rows |-> rows]

NoTable == [exists |-> FALSE, rows |-> <<>>]

\* an array: nd dimensions, the data kept as rows (a 0-d or 1-d array is
\* one row, which is also what numpy.atleast_2d makes of it)
Array(nd, d) == [nd |-> nd, d |-> d]

NRows(m) == Len(m)

NCols(m) == IF m = <<>> THEN 0 ELSE Len(m[1])

Transposed(m) == [j \in 1..NCols(m) |-> [i \in 1..NRows(m) |-> m[i][j]]]

\* numpy.genfromtxt on an existing file: dimensions of length one are dropped
genfromtxt(rows) ==
    IF NRows(rows) = 0 THEN Array(1, <<<<>>>>)
    ELSE IF NRows(rows) = 1 /\ NCols(rows) = 1 THEN Array(0, rows)
    ELSE IF NRows(rows) = 1 THEN Array(1, rows)
    ELSE IF NCols(rows) = 1 THEN Array(1, Transposed(rows))
    ELSE Array(2, rows)

\* numpy.transpose: only a 2-d array changes
transpose(a) == IF a.nd = 2 THEN Array(2, Transposed(a.d)) ELSE a

\* numpy.vstack of two arrays given as rows; it raises ValueError unless the
\* widths agree
vstack(m, n) == m \o n

\* arrays of any widths are stacked
vstackAny(m, n) == TRUE

vstackOk(m, n) == NCols(m) = NCols(n)

\* numpy.hstack of 2-d arrays: the numbers of rows must agree
hstackOk(ms) == \A i \in DOMAIN ms : NRows(ms[i]) = NRows(ms[1])

RECURSIVE RowConcat(_, _)
RowConcat(ms, i) ==
    IF ms = <<>> THEN <<>> ELSE Head(ms)[i] \o RowConcat(Tail(ms), i)

hstack(ms) == [i \in 1..NRows(ms[1]) |-> RowConcat(ms, i)]

\* list reshaped to a column: reshape(n, 1)
Column(s) == [i \in DOMAIN s |-> <<s[i]>>]

\* getsize / getmask: arr[np.where(arr[:,1] == id), 2].flat[0].  A table that
\* is not 2-d cannot be indexed, a table without the id has no first match
HasRow(arr, id) == arr.nd = 2 /\ \E i \in DOMAIN arr.d : arr.d[i][2] = id

FirstRow(arr, id) ==
    CHOOSE i \in DOMAIN arr.d :
        /\ arr.d[i][2] = id
        /\ \A j \in DOMAIN arr.d : arr.d[j][2] = id => i <= j

\* a lookup that yields zero for an id the table does not list
getsizeOrZero(arr, id) ==
    IF HasRow(arr, id) THEN [ok |-> TRUE, v |-> arr.d[FirstRow(arr, id)][3]]
    ELSE [ok |-> arr.nd = 2, v |-> Word("0")]

getsize(arr, id) ==
    IF HasRow(arr, id)
    THEN [ok |-> TRUE, v |-> arr.d[FirstRow(arr, id)][3]]
    ELSE [ok |-> FALSE, v |-> Word("")]

-----------------------------------------------------------------------------
(* Analyses of the setup module, and the tables mri_segstats writes *)

CondName(i) == <<"c1", "c2", "c3", "c4">>[i]

ContrastName(i) == <<"k1", "k2", "k3", "k4">>[i]

\* cfg.betas(par, "names") / cfg.contrasts(par, "names") are the names field
Analyses ==
    {[name |-> "beta", extract |-> "beta",
      names |-> [i \in 1..MaxConds |-> CondName(i)]],
     [name |-> "con", extract |-> "contrast",
      names |-> [i \in 1..MaxConds |-> ContrastName(i)]],
     [name |-> "loc", extract |-> "beta", names |-> <<CondName(1)>>],
     [name |-> "tc", extract |-> "timecourse", names |-> <<>>]}

AnalysisNames == {an.name : an \in Analyses}

\* get_analysis_name joined to the atlas name: the database name
DbName(atlasname, an) == atlasname \o "_" \o an.name

SubjectName(i) == <<"s1", "s2", "s3", "s4">>[i]

\* ids the size table of an atlas lists: Atlas._vol_stats / _surf_stats pass
\* the sorted all_regions; the HarvardOxford table ships with the package
StatsIds(a, h) == Sort(a.all_regions[h])

\* the size table of subject s, hemisphere h: index, region id, count
StatsTable(a, s, h) ==
    LET ids == StatsIds(a, h)
    IN File([i \in DOMAIN ids |-> <<i, ids[i], SizeVal(s, h, ids[i])>>])

\* Atlas._vol_extract / _surf_extract: the requested ids are sorted before the
\* command is built, so the tables list the regions in ascending id order.
\* functxt has one row per frame of the source image and one column per
\* region, funcstats one row per region
ExtractTables(a, frames, s, h) ==
    LET ids == Sort(a.regions[h])
    IN [exists |-> TRUE,
        functxt |-> [f \in 1..frames |->
                        [j \in DOMAIN ids |-> FuncVal(s, h, ids[j], f)]],
        funcstats |-> [j \in DOMAIN ids |-> <<j, ids[j], MaskVal(s, h, ids[j])>>]]

NoExtract == [exists |-> FALSE, functxt |-> <<>>, funcstats |-> <<>>]

\* a table without its row for region id
WithoutRow(rows, id) == SelectSeq(rows, LAMBDA r : r[2] # id)

-----------------------------------------------------------------------------
(* build_database, lines 85-152: the assembly of the table *)

unitdict == [m \in {"surface", "volume"} |->
                IF m = "surface" THEN "vertices" ELSE "voxels"]

FuncHeader(an) == << [i \in DOMAIN an.names |-> Word(an.names[i])] >>

\* lines 100-106: the region names, or the KeyError of a missing hemisphere
RoisOk(a) == a.manifold = "volume" \/ {"lh", "rh"} \subseteq DOMAIN a.regions

\* the names of the right hemisphere put before those of the left
AddRoisRhFirst(a) ==
    IF a.manifold = "volume"
    THEN [i \in DOMAIN a.regions["vol"] |-> a.lutdict[a.regions["vol"][i]]]
    ELSE [i \in DOMAIN a.regions["rh"] |-> a.lutdict[a.regions["rh"][i]]] \o
         [i \in DOMAIN a.regions["lh"] |-> a.lutdict[a.regions["lh"][i]]]

AddRois(a) ==
    IF a.manifold = "volume"
    THEN [i \in DOMAIN a.regions["vol"] |-> a.lutdict[a.regions["vol"][i]]]
    ELSE [i \in DOMAIN a.regions["lh"] |-> a.lutdict[a.regions["lh"][i]]] \o
         [i \in DOMAIN a.regions["rh"] |-> a.lutdict[a.regions["rh"][i]]]

\* item size of the string array made from a list of names
ItemSize(names) == SeqMax([i \in DOMAIN names |-> Len(names[i])])

\* lines 141-144: names of one hemisphere get the hemisphere prefix, written
\* back into the array of item size w
PrefixName(name, h, w) ==
    IF StartsWith(name, HemiChars(h)) THEN name
    ELSE Truncate(HemiChars(h) \o <<"-">> \o name, w)

\* the steps of one pass of the subject loop: what the pass appends, or the
\* exception it raises.  n is the number of rows of the pass, ids the region
\* ids whose sizes are looked up, names the region names of the pass
Pass(acc, s, h, n, ids, names, st, ex) ==
    LET addfunc == transpose(genfromtxt(ex.functxt))
        sizearr == genfromtxt(st.rows)
        maskarr == genfromtxt(ex.funcstats)
    IN IF ~ex.exists \/ ~st.exists THEN [acc EXCEPT !.err = "IOError"]
       ELSE IF \E i \in DOMAIN ids : ~getsize(sizearr, ids[i]).ok
       THEN [acc EXCEPT !.err = "IndexError"]
       ELSE IF Len(ids) # n THEN [acc EXCEPT !.err = "ValueError"]
       ELSE IF \E i \in DOMAIN ids : ~getsize(maskarr, ids[i]).ok
       THEN [acc EXCEPT !.err = "IndexError"]
       ELSE IF ~vstackOk(acc.func, addfunc.d) THEN [acc EXCEPT !.err = "ValueError"]
       ELSE [acc EXCEPT
                !.subj = vstack(@, Column([i \in 1..n |-> Word(s)])),
                !.rois = vstack(@, Column([i \in DOMAIN names |-> Text(names[i])])),
                !.size = vstack(@, Column([i \in DOMAIN ids |-> getsize(sizearr, ids[i]).v])),
                !.func = vstack(@, addfunc.d),
                !.mask = vstack(@, Column([i \in DOMAIN ids |-> getsize(maskarr, ids[i]).v]))]

\* lines 128-150: the hemisphere loop of one subject.  acc.addrois is the
\* array of region names, which the loop rewrites in place
RECURSIVE HemiLoop(_, _, _, _, _, _)
HemiLoop(acc, a, s, idx, st, ex) ==
    IF acc.err # "" \/ idx > Len(a.iterhemi) THEN acc
    ELSE LET h == a.iterhemi[idx]
             nrois == Len(acc.addrois)
             half == nrois \div 2
             part == nrois \div Len(a.iterhemi)
             w == acc.itemsize
             names == [i \in 1..part |->
                          PrefixName(acc.addrois[(idx - 1) * part + i], h, w)]
             addrois == [i \in DOMAIN acc.addrois |->
                            IF i > (idx - 1) * part /\ i <= idx * part
                            THEN names[i - (idx - 1) * part]
                            ELSE acc.addrois[i]]
             acc1 == Pass(acc, s, h, half, a.regions[h], names, st[h], ex[h])
         IN HemiLoop([acc1 EXCEPT !.addrois = IF acc1.err = "" THEN addrois ELSE @],
                     a, s, idx + 1, st, ex)

\* lines 108-150: the subject loop
RECURSIVE SubjectLoop(_, _, _, _, _, _)
SubjectLoop(acc, a, subjs, i, stats, extr) ==
    IF acc.err # "" \/ i > Len(subjs) THEN acc
    ELSE LET s == subjs[i]
         IN IF a.manifold = "volume"
            THEN SubjectLoop(
                     Pass(acc, s, "vol", Len(acc.addrois), a.regions["vol"],
                          acc.addrois, stats[s]["vol"], extr[s]["vol"]),
                     a, subjs, i + 1, stats, extr)
            ELSE IF Len(acc.addrois) % Len(a.iterhemi) # 0
            THEN [acc EXCEPT !.err = "ValueError"]
            ELSE SubjectLoop(HemiLoop(acc, a, s, 1, stats[s], extr[s]),
                             a, subjs, i + 1, stats, extr)

\* the final sizes put before the functional values
FinalColsMaskFourth(acc) == <<acc.subj, acc.rois, acc.size, acc.mask, acc.func>>

\* line 152: the column blocks of finaldb, left to right
FinalCols(acc) == <<acc.subj, acc.rois, acc.size, acc.func, acc.mask>>

\* lines 85-152: the assembled table finaldb, or the exception raised
Assemble(a, an, subjs, stats, extr) ==
    IF an.extract = "timecourse" THEN [err |-> "NotImplementedError", db |-> <<>>]
    ELSE IF ~RoisOk(a) THEN [err |-> "KeyError", db |-> <<>>]
    ELSE LET units == unitdict[a.manifold]
             acc0 == [err |-> "",
                      subj |-> <<<<Word("subjects")>>>>,
                      rois |-> <<<<Word("rois")>>>>,
                      size |-> <<<<Word("base-" \o units)>>>>,
                      mask |-> <<<<Word("final-" \o units)>>>>,
                      func |-> FuncHeader(an),
                      addrois |-> AddRois(a),
                      itemsize |-> ItemSize(AddRois(a))]
             acc == SubjectLoop(acc0, a, subjs, 1, stats, extr)
             cols == FinalCols(acc)
         IN IF acc.err # "" THEN [err |-> acc.err, db |-> <<>>]
            ELSE IF ~hstackOk(cols) THEN [err |-> "ValueError", db |-> <<>>]
            ELSE [err |-> "", db |-> hstack(cols)]

-----------------------------------------------------------------------------
(* build_database, lines 49-83: the history of written databases *)

\* line 51: str(datetime.now()) cut to the minute
DateStr(c) == <<"d1", "d2", "d3", "d4", "d5">>[c]

Dates == {DateStr(c) : c \in 1..MaxClock}

NoFile == Array(-1, <<>>)

NoDb == [exists |-> FALSE, db |-> <<>>, ver |-> 0]

NoCall == [name |-> "", an |-> "", err |-> "none", ver |-> 0, date |-> ""]

\* name in dbhist
InHist(dbhist, name) ==
    \E i \in DOMAIN dbhist.d : \E j \in DOMAIN dbhist.d[i] : dbhist.d[i][j] = name

\* a missing history file is an error
HistoryNoFileRaises(hist, name, newdate, files, arch) ==
    IF hist = NoFile
    THEN [err |-> "IOError", dbhist |-> hist, files |-> files, arch |-> arch]
    ELSE [err |-> "", dbhist |-> Array(2, hist.d \o <<<<name, newdate>>>>),
          files |-> files, arch |-> arch]

\* the history is updated but the old database stays where it is
HistoryNoMove(hist, name, newdate, files, arch) ==
    IF hist = NoFile
    THEN [err |-> "", dbhist |-> Array(1, <<<<name, newdate>>>>),
          files |-> files, arch |-> arch]
    ELSE IF ~InHist(hist, name)
    THEN [err |-> "", dbhist |-> Array(2, hist.d \o <<<<name, newdate>>>>),
          files |-> files, arch |-> arch]
    ELSE IF hist.nd > 1
    THEN [err |-> "TypeError", dbhist |-> hist, files |-> files, arch |-> arch]
    ELSE [err |-> "", dbhist |-> Array(1, <<<<hist.d[1][1], newdate>>>>),
          files |-> files, arch |-> arch]

\* the failed move of an absent database is not caught
HistoryMoveRaises(hist, name, newdate, files, arch) ==
    IF hist = NoFile
    THEN [err |-> "", dbhist |-> Array(1, <<<<name, newdate>>>>),
          files |-> files, arch |-> arch]
    ELSE IF ~InHist(hist, name)
    THEN [err |-> "", dbhist |-> Array(2, hist.d \o <<<<name, newdate>>>>),
          files |-> files, arch |-> arch]
    ELSE IF hist.nd > 1
    THEN [err |-> "TypeError", dbhist |-> hist, files |-> files, arch |-> arch]
    ELSE IF files[name].exists
    THEN [err |-> "", dbhist |-> Array(1, <<<<hist.d[1][1], newdate>>>>),
          files |-> [files EXCEPT ![name] = NoDb],
          arch |-> [arch EXCEPT ![<<name, hist.d[1][2]>>] = files[name]]]
    ELSE [err |-> "IOError", dbhist |-> hist, files |-> files, arch |-> arch]

\* a name the history lacks starts the history anew
HistoryForgets(hist, name, newdate, files, arch) ==
    IF hist = NoFile
    THEN [err |-> "", dbhist |-> Array(1, <<<<name, newdate>>>>),
          files |-> files, arch |-> arch]
    ELSE IF ~InHist(hist, name)
    THEN [err |-> "", dbhist |-> Array(1, <<<<name, newdate>>>>),
          files |-> files, arch |-> arch]
    ELSE IF hist.nd > 1
    THEN [err |-> "TypeError", dbhist |-> hist, files |-> files, arch |-> arch]
    ELSE LET olddate == hist.d[1][2]
             dbhist == Array(1, <<<<hist.d[1][1], newdate>>>>)
         IN IF files[name].exists
            THEN [err |-> "", dbhist |-> dbhist,
                  files |-> [files EXCEPT ![name] = NoDb],
                  arch |-> [arch EXCEPT ![<<name, olddate>>] = files[name]]]
            ELSE [err |-> "", dbhist |-> dbhist, files |-> files, arch |-> arch]

\* lines 59-83.  The result holds the history array to be saved, the files
\* after the move of the old database, and the exception raised, if any.
\* With a history of several rows olddate is an array, and the path of the
\* archive file cannot be built from it
History(hist, name, newdate, files, arch) ==
    IF hist = NoFile
    THEN [err |-> "", dbhist |-> Array(1, <<<<name, newdate>>>>),
          files |-> files, arch |-> arch]
    ELSE IF ~InHist(hist, name)
    THEN [err |-> "", dbhist |-> Array(2, hist.d \o <<<<name, newdate>>>>),
          files |-> files, arch |-> arch]
    ELSE IF hist.nd > 1
    THEN [err |-> "TypeError", dbhist |-> hist, files |-> files, arch |-> arch]
    ELSE LET olddate == hist.d[1][2]
             dbhist == Array(1, <<<<hist.d[1][1], newdate>>>>)
         IN IF files[name].exists
            THEN [err |-> "", dbhist |-> dbhist,
                  files |-> [files EXCEPT ![name] = NoDb],
                  arch |-> [arch EXCEPT ![<<name, olddate>>] = files[name]]]
            ELSE [err |-> "", dbhist |-> dbhist, files |-> files, arch |-> arch]

-----------------------------------------------------------------------------
(* The state machine *)

DbNames(d) == {DbName(d.atlasname, an) : an \in Analyses}

SubjectLists == {[i \in 1..k |-> SubjectName(i)] : k \in 1..MaxSubjects}

\* the files left by make_atlas for every subject
InitStats(a, subjs) ==
    IF a.err # "" THEN <<>>
    ELSE [s \in Range(subjs) |-> [h \in Scopes(a) |-> StatsTable(a, s, h)]]

InitExtracted(a, subjs) ==
    IF a.err # "" THEN <<>>
    ELSE [n \in AnalysisNames |->
             [s \in Range(subjs) |-> [h \in Scopes(a) |-> NoExtract]]]

InitWith(d, lut, subjs) ==
    /\ atlasdict = d
    /\ lutids = lut
    /\ atlasobj = NoAtlas
    /\ subjects = subjs
    /\ statsfile = InitStats(init_atlas(d, lut), subjs)
    /\ extracted = InitExtracted(init_atlas(d, lut), subjs)
    /\ dbfiles = [n \in DbNames(d) |-> NoDb]
    /\ archive = [p \in DbNames(d) \X Dates |-> NoDb]
    /\ histfile = NoFile
    /\ clock = 1
    /\ nedits = 0
    /\ lastcall = NoCall
    /\ builds = [n \in DbNames(d) |-> 0]
    /\ setupdict = <<>>
    /\ sourcedir = <<>>
    /\ resolved = NoAtlas
    /\ inits = NoInits
    /\ run = NoRun

Init == \E d \in AtlasDicts, subjs \in SubjectLists : InitWith(d, LutFile(d), subjs)

\* build_database(atlas, analysis, subjects) with the tables extr of the
\* analysis: the files and the call record after the call.  The content
\* written carries the number of the write as its version
BuildResult(an, extr) ==
    LET a == init_atlas(atlasdict, lutids)
        name == DbName(atlasdict.atlasname, an)
        newdate == DateStr(clock)
        ver == builds[name] + 1
        call(e) == [name |-> name, an |-> an.name, err |-> e, ver |-> ver,
                    date |-> newdate]
        same(e) == [files |-> dbfiles, arch |-> archive, hist |-> histfile,
                    call |-> call(e)]
    IN IF a.err # "" THEN same(a.err)
       ELSE LET h == History(histfile, name, newdate, dbfiles, archive)
                asm == Assemble(a, an, subjects, statsfile, extr)
            IN IF h.err # "" THEN same(h.err)
               ELSE IF asm.err # ""
               THEN [files |-> h.files, arch |-> h.arch, hist |-> histfile,
                     call |-> call(asm.err)]
               ELSE [files |-> [h.files EXCEPT ![name] =
                                   [exists |-> TRUE, db |-> asm.db, ver |-> ver]],
                     arch |-> h.arch, hist |-> h.dbhist, call |-> call("")]

\* the count of successful writes of a name; writes are counted only where
\* their number is bounded
Counted(count, call) ==
    IF count /\ call.err = "" THEN [builds EXCEPT ![call.name] = @ + 1]
    ELSE builds

\* build_database called on its own; where writes are counted, at most
\* MaxBuilds writes of a name are followed
BuildDatabase(an, count) ==
    /\ count => builds[DbName(atlasdict.atlasname, an)] < MaxBuilds
    /\ LET r == BuildResult(an, IF extracted = <<>> THEN <<>> ELSE extracted[an.name])
       IN /\ dbfiles' = r.files
          /\ archive' = r.arch
          /\ histfile' = r.hist
          /\ lastcall' = r.call
          /\ builds' = Counted(count, r.call)
    /\ UNCHANGED <<atlasdict, lutids, atlasobj, subjects, statsfile, extracted,
                   clock, nedits>>
    /\ UNCHANGED <<cfgvars, inits, run>>

\* Atlas.group_extract (debug off): extract() for every subject of the list,
\* then build_database.  The source image has one frame per beta or contrast
\* image of the analysis
GroupExtract(an, count) ==
    /\ count => builds[DbName(atlasdict.atlasname, an)] < MaxBuilds
    /\ an.extract # "timecourse"
    /\ init_atlas(atlasdict, lutids).err = ""
    /\ LET a == init_atlas(atlasdict, lutids)
           extr == [s \in Range(subjects) |->
                       [h \in Scopes(a) |-> ExtractTables(a, Len(an.names), s, h)]]
           r == BuildResult(an, extr)
       IN /\ extracted' = [extracted EXCEPT ![an.name] = extr]
          /\ dbfiles' = r.files
          /\ archive' = r.arch
          /\ histfile' = r.hist
          /\ lastcall' = r.call
          /\ builds' = Counted(count, r.call)
    /\ UNCHANGED <<atlasdict, lutids, atlasobj, subjects, statsfile, clock, nedits>>
    /\ UNCHANGED <<cfgvars, inits, run>>

\* Atlas.extract for one subject on a source image of the given number of
\* frames: the image stems from the list of conditions at the time of the
\* extraction, which need not be the list at the time of build_database
Extract(an, s, frames) ==
    /\ nedits < MaxEdits
    /\ an.extract # "timecourse"
    /\ init_atlas(atlasdict, lutids).err = ""
    /\ LET a == init_atlas(atlasdict, lutids)
       IN extracted' = [extracted EXCEPT ![an.name][s] =
                           [h \in Scopes(a) |-> ExtractTables(a, frames, s, h)]]
    /\ nedits' = nedits + 1
    /\ UNCHANGED <<atlasdict, lutids, atlasobj, subjects, statsfile, dbfiles,
                   archive, histfile, clock, lastcall, builds>>
    /\ UNCHANGED <<cfgvars, inits, run>>

\* a size table that lacks the row of a region
DropSizeRow(s, h, id) ==
    /\ nedits < MaxEdits
    /\ statsfile # <<>>
    /\ s \in DOMAIN statsfile /\ h \in DOMAIN statsfile[s]
    /\ \E i \in DOMAIN statsfile[s][h].rows : statsfile[s][h].rows[i][2] = id
    /\ statsfile' = [statsfile EXCEPT ![s][h].rows = WithoutRow(@, id)]
    /\ nedits' = nedits + 1
    /\ UNCHANGED <<atlasdict, lutids, atlasobj, subjects, extracted, dbfiles,
                   archive, histfile, clock, lastcall, builds>>
    /\ UNCHANGED <<cfgvars, inits, run>>

\* a masked-size table that lacks the row of a region
DropMaskRow(n, s, h, id) ==
    /\ nedits < MaxEdits
    /\ extracted # <<>>
    /\ s \in DOMAIN extracted[n] /\ h \in DOMAIN extracted[n][s]
    /\ extracted[n][s][h].exists
    /\ \E i \in DOMAIN extracted[n][s][h].funcstats :
           extracted[n][s][h].funcstats[i][2] = id
    /\ extracted' = [extracted EXCEPT ![n][s][h].funcstats = WithoutRow(@, id)]
    /\ nedits' = nedits + 1
    /\ UNCHANGED <<atlasdict, lutids, atlasobj, subjects, statsfile, dbfiles,
                   archive, histfile, clock, lastcall, builds>>
    /\ UNCHANGED <<cfgvars, inits, run>>

\* the clock reaches the next minute
Tick ==
    /\ clock < MaxClock
    /\ clock' = clock + 1
    /\ UNCHANGED <<atlasdict, lutids, atlasobj, subjects, statsfile, extracted,
                   dbfiles, archive, histfile, nedits, lastcall, builds>>
    /\ UNCHANGED <<cfgvars, inits, run>>

\* the region ids the atlas of the dictionary asks for
AllIds == UNION {Range(init_atlas(atlasdict, lutids).regions[h]) :
                     h \in Scopes(init_atlas(atlasdict, lutids))}

\* assembly over every kind of atlas and every subject list
Next ==
    \/ \E an \in Analyses : BuildDatabase(an, FALSE)
    \/ \E an \in Analyses : GroupExtract(an, FALSE)

Spec == Init /\ [][Next]_vars

\* atlases whose databases can be written: two regions or more in every scope
HistDicts ==
    {Dict("aseg", "freesurfer", "volume", "aseg.mgz", <<1, 2>>, "", <<>>),
     Dict("aparc", "freesurfer", "surface", "aparc.annot", <<1, 2>>, "", <<>>),
     Dict("mask", "mask", "volume", "", <<>>, "", <<SourceName(1), SourceName(2)>>)}

\* builds over tables that lose rows
TableAnalyses == {an \in Analyses : an.name \in {"beta", "tc"}}

InitTables == \E d \in HistDicts, subjs \in SubjectLists :
                  InitWith(d, LutIds(d, {1, 2}), subjs)

NextTables ==
    \/ \E an \in TableAnalyses : BuildDatabase(an, FALSE)
    \/ \E an \in TableAnalyses : GroupExtract(an, FALSE)
    \/ \E an \in TableAnalyses, s \in Range(subjects), f \in 1..(MaxConds + 1) :
           Extract(an, s, f)
    \/ \E s \in Range(subjects), h \in {"vol", "lh", "rh"}, id \in AllIds :
           DropSizeRow(s, h, id)
    \/ \E n \in {an.name : an \in TableAnalyses}, s \in Range(subjects), h \in {"vol", "lh", "rh"},
          id \in AllIds : DropMaskRow(n, s, h, id)

SpecTables == InitTables /\ [][NextTables]_vars

\* repeated writes of the databases of one atlas while the clock runs
InitHist == \E d \in HistDicts : InitWith(d, LutIds(d, {1, 2}), <<SubjectName(1)>>)

HistAnalyses == {an \in Analyses : an.name \in {"beta", "con", "tc"}}

NextHist ==
    \/ \E an \in HistAnalyses : BuildDatabase(an, TRUE)
    \/ \E an \in HistAnalyses : GroupExtract(an, TRUE)
    \/ \E s \in Range(subjects), h \in {"vol", "lh", "rh"}, id \in AllIds :
           DropSizeRow(s, h, id)
    \/ Tick

SpecHist == InitHist /\ [][NextHist]_vars

\* the atlases of a setup module are defined and constructed
AsegCodes == DOMAIN convtable

AparcCodes == 1..3

HOCodes == {1, 2, HOOffset, HOOffset + 1, HOOffset + 2}

CatalogDicts ==
    {Dict("aseg", "freesurfer", "volume", "aseg.mgz", r, "", <<>>) :
        r \in DistinctSeqs(AsegCodes, MaxReq)}
    \cup {Dict("aparc", "freesurfer", "surface", "aparc.annot", r, "", <<>>) :
             r \in DistinctSeqs(AparcCodes, MaxReq)}
    \cup {Dict("a2009s", "freesurfer", "surface", "aparc.a2009s.annot", r, "", <<>>) :
             r \in DistinctSeqs(AparcCodes, MaxReq)}
    \cup {Dict("ho", "fsl", "volume", "", r, "", <<>>) :
             r \in DistinctSeqs(HOCodes, MaxReq)}
    \cup {Dict("mask", "mask", "volume", "", <<>>, "", n) : n \in SourceLists}
    \cup {Dict("label", "label", "surface", "", <<>>, h, n) :
             h \in {"lh", "rh"}, n \in SourceLists}
    \cup {Dict("sig", "sigsurf", "surface", "", <<>>, h, n) :
             h \in {"lh", "rh"}, n \in SourceLists}

\* the whole look-up table file of a dictionary's atlas
CatalogLut(d) ==
    IF d.source = "fsl" THEN HOLutIds
    ELSE LutIds(d, IF d.fname = "aseg.mgz" THEN AsegCodes ELSE AparcCodes)

InitCatalog ==
    /\ atlasdict \in CatalogDicts
    /\ lutids = CatalogLut(atlasdict)
    /\ atlasobj = NoAtlas
    /\ subjects = <<>>
    /\ statsfile = <<>>
    /\ extracted = <<>>
    /\ dbfiles = <<>>
    /\ archive = <<>>
    /\ histfile = NoFile
    /\ clock = 1
    /\ nedits = 0
    /\ lastcall = NoCall
    /\ builds = <<>>
    /\ setupdict = <<>>
    /\ sourcedir = <<>>
    /\ resolved = NoAtlas
    /\ inits = NoInits
    /\ run = NoRun

\* init_atlas(atlasname) on the atlas of the setup module
Construct ==
    /\ atlasobj = NoAtlas
    /\ atlasobj' = init_atlas(atlasdict, lutids)
    /\ UNCHANGED <<atlasdict, lutids, subjects, statsfile, extracted, dbfiles,
                   archive, histfile, clock, nedits, lastcall, builds>>
    /\ UNCHANGED <<cfgvars, inits, run>>

\* the object is dropped
Discard ==
    /\ atlasobj # NoAtlas
    /\ atlasobj' = NoAtlas
    /\ UNCHANGED <<atlasdict, lutids, subjects, statsfile, extracted, dbfiles,
                   archive, histfile, clock, nedits, lastcall, builds>>
    /\ UNCHANGED <<cfgvars, inits, run>>

NextCatalog == Construct \/ Discard

SpecCatalog == InitCatalog /\ [][NextCatalog]_vars

-----------------------------------------------------------------------------
(* cfg.atlases: the atlas dictionaries of the setup module are checked and  *)
(* completed.  Field names are lists of characters, a dictionary is a       *)
(* function from field names to values.                                     *)

\* str.lower on one character
LowerChar(c) ==
    CASE c = "A" -> "a" [] c = "F" -> "f" [] c = "H" -> "h" [] c = "M" -> "m"
      [] c = "N" -> "n" [] c = "R" -> "r" [] c = "S" -> "s" [] OTHER -> c

LowerLetters ==
    {"a", "b", "c", "d", "e", "f", "g", "h", "i", "j", "k", "l", "m", "n", "o",
     "p", "q", "r", "s", "t", "u", "v", "w", "x", "y", "z"}

\* str.lower
Lower(k) == [i \in DOMAIN k |-> LowerChar(k[i])]

\* str.islower: there is a cased character and no cased character is upper
\* case
IsLower(k) ==
    /\ \E i \in DOMAIN k : k[i] \in LowerLetters
    /\ \A i \in DOMAIN k : LowerChar(k[i]) = k[i]

\* str.capitalize on a lower-case field name of the model's alphabet
UpperChar(c) == IF \E u \in {"A", "F", "H", "M", "N", "R", "S"} : LowerChar(u) = c
                THEN CHOOSE u \in {"A", "F", "H", "M", "N", "R", "S"} : LowerChar(u) = c
                ELSE c

Capitalized(k) == [i \in DOMAIN k |-> IF i = 1 THEN UpperChar(k[i]) ELSE k[i]]

\* the field names of atlas dictionaries
Field ==
    [atlasname |-> <<"a", "t", "l", "a", "s", "n", "a", "m", "e">>,
     source |-> <<"s", "o", "u", "r", "c", "e">>,
     fname |-> <<"f", "n", "a", "m", "e">>,
     manifold |-> <<"m", "a", "n", "i", "f", "o", "l", "d">>,
     regions |-> <<"r", "e", "g", "i", "o", "n", "s">>,
     probthresh |-> <<"p", "r", "o", "b", "t", "h", "r", "e", "s", "h">>,
     hemi |-> <<"h", "e", "m", "i">>,
     file |-> <<"f", "i", "l", "e">>,
     fdr |-> <<"f", "d", "r">>,
     minsize |-> <<"m", "i", "n", "s", "i", "z", "e">>,
     sourcedir |-> <<"s", "o", "u", "r", "c", "e", "d", "i", "r">>,
     sourcefiles |-> <<"s", "o", "u", "r", "c", "e", "f", "i", "l", "e", "s">>,
     sourcenames |-> <<"s", "o", "u", "r", "c", "e", "n", "a", "m", "e", "s">>]

\* the atlasfields lists of the _prep_*_atlas functions
atlasfields(source) ==
    CASE source = "freesurfer" ->
             {Field.atlasname, Field.source, Field.fname, Field.manifold, Field.regions}
      [] source = "fsl" -> {Field.atlasname, Field.source, Field.probthresh, Field.regions}
      [] source = "sigsurf" ->
             {Field.atlasname, Field.source, Field.hemi, Field.file, Field.fdr, Field.minsize}
      [] source = "label" ->
             {Field.atlasname, Field.source, Field.hemi, Field.sourcedir, Field.sourcefiles}
      [] source = "mask" -> {Field.atlasname, Field.source, Field.sourcedir, Field.sourcefiles}
      [] OTHER -> {}

SourceKinds == {"freesurfer", "fsl", "sigsurf", "label", "mask"}

\* values of a dictionary: a string, a number, or a list of either
Str(w) == [t |-> "str", s |-> <<w>>, n |-> <<>>, f |-> <<>>]

Num(i) == [t |-> "int", s |-> <<>>, n |-> <<i>>, f |-> <<>>]

NumList(l) == [t |-> "list", s |-> <<>>, n |-> l, f |-> <<>>]

StrList(l) == [t |-> "list", s |-> l, n |-> <<>>, f |-> <<>>]

\* a list of file paths
FileList(l) == [t |-> "list", s |-> <<>>, n |-> <<>>, f |-> l]

\* a file path: directory, base name without extension, extension
Path(dir, stem, ext) == [dir |-> dir, stem |-> stem, ext |-> ext]

\* the dictionary d without key k, and with key k set to v
DelKey(d, k) == [x \in DOMAIN d \ {k} |-> d[x]]

SetKey(d, k, v) == [x \in DOMAIN d \cup {k} |-> IF x = k THEN v ELSE d[x]]

\* atlases, lines 123-126: every key that is not islower() is stored under
\* its lower-case form and then deleted; a key without a cased character is
\* its own lower-case form, so it is deleted
RECURSIVE LowerKeys(_, _)
LowerKeys(d, keys) ==
    IF keys = {} THEN d
    ELSE LET k == CHOOSE x \in keys : TRUE
             d1 == IF IsLower(k) THEN d
                   ELSE DelKey(SetKey(d, Lower(k), d[k]), k)
         IN LowerKeys(d1, keys \ {k})

\* _check_fields
CheckFields(fields, d) ==
    IF \E k \in DOMAIN d : k \notin fields THEN "unexpected"
    ELSE IF \E f \in fields : f \notin DOMAIN d THEN "missing"
    ELSE ""

\* the outcome of a _prep_*_atlas function: the dictionary, or SetupError
Prepared(d) == [err |-> "", d |-> d]

SetupError == [err |-> "SetupError", d |-> <<>>]

\* isinstance(v, list) or [v]
AsList(v) == IF v.t = "list" THEN v ELSE [v EXCEPT !.t = "list"]

\* _prep_freesurfer_atlas (the subjects directory exists)
prep_freesurfer_atlas(d) ==
    IF CheckFields(atlasfields("freesurfer"), d) # "" THEN SetupError
    ELSE IF d[Field.manifold] \notin {Str("surface"), Str("volume")} THEN SetupError
    ELSE LET fname == d[Field.fname].f[1]
             annot == IF d[Field.manifold] = Str("surface") /\ fname.ext # ".annot"
                      THEN Path(fname.dir, fname.stem \o fname.ext, ".annot")
                      ELSE fname
         IN Prepared([d EXCEPT ![Field.fname] = FileList(<<annot>>),
                               ![Field.regions] = AsList(d[Field.regions])])

\* _prep_fsl_atlas
prep_fsl_atlas(d) ==
    IF CheckFields(atlasfields("fsl"), d) # "" THEN SetupError
    ELSE IF d[Field.probthresh] \notin {Num(25), Num(50)} THEN SetupError
    ELSE Prepared([SetKey(d, Field.manifold, Str("volume"))
                      EXCEPT ![Field.regions] = AsList(d[Field.regions])])

\* float(s) and int(x) on the number strings of the model; a float is kept
\* in thousandths
IsFloatStr(w) == w \in {"0.05", "0.01", "50"}

ParseFloat(w) == CASE w = "0.05" -> 50 [] w = "0.01" -> 10 [] OTHER -> 50000

Float(th) == [t |-> "float", s |-> <<>>, n |-> <<th>>, f |-> <<>>]

\* int(x): a float is truncated, an int is kept, a string must be the text
\* of a whole number
IntOf(v) ==
    IF v.t = "float" THEN Prepared(Num(v.n[1] \div 1000))
    ELSE IF v.t = "int" THEN Prepared(v)
    ELSE IF v.t = "str" /\ v.s[1] = "50" THEN Prepared(Num(50))
    ELSE SetupError

\* _prep_sigsurf_atlas (the subjects directory and the source image exist).
\* Line 219 converts the fdr field where the minsize field is a string
prep_sigsurf_atlas(d) ==
    IF CheckFields(atlasfields("sigsurf"), d) # "" THEN SetupError
    ELSE LET d1 == SetKey(d, Field.manifold, Str("surface"))
             fdrStr == d1[Field.fdr].t = "str"
             d2 == IF fdrStr /\ IsFloatStr(d1[Field.fdr].s[1])
                   THEN [d1 EXCEPT ![Field.fdr] = Float(ParseFloat(d1[Field.fdr].s[1]))]
                   ELSE d1
         IN IF fdrStr /\ ~IsFloatStr(d1[Field.fdr].s[1]) THEN SetupError
            ELSE IF d2[Field.minsize].t = "str"
            THEN IF IntOf(d2[Field.fdr]).err # "" THEN SetupError
                 ELSE Prepared([d2 EXCEPT ![Field.fdr] = IntOf(d2[Field.fdr]).d])
            ELSE Prepared(d2)

\* glob(os.path.join(sourcedir, "*.label")): the label files of the directory
GlobLabels(dir) == SelectSeq(dir, LAMBDA p : p.ext = ".label")

\* lines 256-261: the path and the name of one label file
LabelFile(dirname, p) ==
    LET base == IF p.ext = ".label" THEN p.stem ELSE p.stem \o p.ext
    IN Path(dirname, base, ".label")

\* _prep_label_atlas (the subjects directory exists).  The condition of line
\* 246, sourcefiles == "all" or ["all"], is true for every value: the second
\* operand is a non-empty list
prep_label_atlas(d, dir) ==
    IF CheckFields(atlasfields("label"), d) # "" THEN SetupError
    ELSE LET dirname == d[Field.sourcedir].s[1]
             found == GlobLabels(dir)
             lfiles == [i \in DOMAIN found |-> LabelFile(dirname, found[i])]
         IN IF found = <<>> THEN SetupError
            ELSE Prepared(
                     SetKey(SetKey([d EXCEPT ![Field.sourcefiles] = FileList(lfiles)],
                                   Field.manifold, Str("surface")),
                            Field.sourcenames,
                            StrList([i \in DOMAIN lfiles |-> lfiles[i].stem])))

\* imgregexp.search(path).group(): the pattern is an alternation of
\* "[\w\.-]+\.(img)", "(nii)", "(nii\.gz)", "(mgh)" and "(mgz)$", so the match
\* of an .img file is its base name and the match of the other image files
\* is the word of the extension.  Directory and base names hold none of the
\* words
ImgMatch(p) ==
    IF p.ext = ".img" THEN <<Path("", p.stem, ".img")>>
    ELSE IF p.ext \in {".nii", ".nii.gz"} THEN <<Path("", "nii", "")>>
    ELSE IF p.ext = ".mgh" THEN <<Path("", "mgh", "")>>
    ELSE IF p.ext = ".mgz" THEN <<Path("", "mgz", "")>>
    ELSE <<>>

\* lines 281-286: the matches of the files of the directory
RECURSIVE GlobImages(_)
GlobImages(dir) ==
    IF dir = <<>> THEN <<>> ELSE ImgMatch(Head(dir)) \o GlobImages(Tail(dir))

\* _prep_mask_atlas.  The condition of line 280 is that of line 246; every
\* file of the list then matches the pattern, so lines 297-310 change nothing
prep_mask_atlas(d, dir) ==
    IF CheckFields(atlasfields("mask"), d) # "" THEN SetupError
    ELSE LET dirname == d[Field.sourcedir].s[1]
             refiles == GlobImages(dir)
             lfiles == [i \in DOMAIN refiles |->
                           Path(dirname, refiles[i].stem, refiles[i].ext)]
         IN IF refiles = <<>> THEN SetupError
            ELSE Prepared(
                     SetKey(SetKey([d EXCEPT ![Field.sourcefiles] = FileList(lfiles)],
                                   Field.manifold, Str("volume")),
                            Field.sourcenames,
                            StrList([i \in DOMAIN lfiles |-> lfiles[i].stem])))

\* atlases(atlasname) for a setup module with the one dictionary d: the
\* resolved dictionary, or the error raised
atlases(name, d, dir) ==
    LET d1 == LowerKeys(SetKey(d, Field.atlasname, Str(name)),
                        DOMAIN d \cup {Field.atlasname})
    IN IF Field.source \notin DOMAIN d1 THEN SetupError
       ELSE LET source == d1[Field.source].s[1]
            IN IF source = "freesurfer" THEN prep_freesurfer_atlas(d1)
               ELSE IF source = "fsl" THEN prep_fsl_atlas(d1)
               ELSE IF source = "label" THEN prep_label_atlas(d1, dir)
               ELSE IF source = "sigsurf" THEN prep_sigsurf_atlas(d1)
               ELSE IF source = "mask" THEN prep_mask_atlas(d1, dir)
               ELSE SetupError

\* files of a source directory: label files, images, and other files
LabelFileOf(i) == Path("", <<"la", "lb", "lc", "ld">>[i], ".label")

ImageFileOf(i) == Path("", <<"va", "vb", "vc", "vd">>[i],
                       IF i % 2 = 1 THEN ".img" ELSE ".nii")

OtherFile == Path("", "notes", ".txt")

\* the listings of a source directory, in the order glob yields them
DirListings ==
    {<<>>, <<OtherFile>>}
    \cup DistinctSeqs({LabelFileOf(i) : i \in 1..MaxSources}, MaxSources)
    \cup DistinctSeqs({ImageFileOf(i) : i \in 1..MaxSources}, MaxSources)

\* the values of a sourcefiles field: "all", ["all"], or a list of files
SourceFileValues(files) ==
    {Str("all"), StrList(<<"all">>)}
    \cup {FileList(l) : l \in DistinctSeqs(files, MaxSources)}

FromPairs(pairs) ==
    [k \in {p[1] : p \in pairs} |-> (CHOOSE p \in pairs : p[1] = k)[2]]

\* dictionaries of the five source kinds as a setup module gives them, with
\* every mandatory field
FullDicts ==
    {FromPairs({<<Field.source, Str("freesurfer")>>, <<Field.fname, FileList(<<f>>)>>,
                <<Field.manifold, Str(m)>>, <<Field.regions, r>>}) :
        f \in {Path("", "aparc", ""), Path("", "aparc", ".annot"),
               Path("", "aseg", ".mgz")},
        m \in {"surface", "volume", "flat"},
        r \in {Num(1), NumList(<<2, 1>>)}}
    \cup {FromPairs({<<Field.source, Str("fsl")>>, <<Field.probthresh, Num(p)>>,
                     <<Field.regions, r>>}) :
             p \in {25, 30, 50}, r \in {Num(1), NumList(<<2, 1>>)}}
    \cup {FromPairs({<<Field.source, Str("sigsurf")>>, <<Field.hemi, Str(h)>>,
                     <<Field.file, FileList(<<Path("", "sig", ".mgh")>>)>>,
                     <<Field.fdr, fdr>>, <<Field.minsize, ms>>}) :
             h \in {"lh", "rh"},
             fdr \in {Float(50), Str("0.05"), Str("50"), Str("low")},
             ms \in {Num(50), Str("50")}}
    \cup {FromPairs({<<Field.source, Str("label")>>, <<Field.hemi, Str(h)>>,
                     <<Field.sourcedir, Str("labels")>>, <<Field.sourcefiles, sf>>}) :
             h \in {"lh", "rh"},
             sf \in SourceFileValues({LabelFileOf(i) : i \in 1..MaxSources})}
    \cup {FromPairs({<<Field.source, Str("mask")>>, <<Field.sourcedir, Str("masks")>>,
                     <<Field.sourcefiles, sf>>}) :
             sf \in SourceFileValues({ImageFileOf(i) : i \in 1..MaxSources})}
    \cup {FromPairs({<<Field.source, Str("atlas")>>, <<Field.regions, Num(1)>>})}

\* one dictionary of every kind, on which fields are left out, added and
\* written with a capital
PlainDicts ==
    {d \in FullDicts :
        /\ Field.regions \in DOMAIN d => d[Field.regions] = Num(1)
        /\ Field.manifold \in DOMAIN d => d[Field.manifold] = Str("volume")
        /\ Field.fname \in DOMAIN d => d[Field.fname].f[1].stem = "aseg"
        /\ Field.probthresh \in DOMAIN d => d[Field.probthresh] = Num(25)
        /\ Field.hemi \in DOMAIN d => d[Field.hemi] = Str("lh")
        /\ Field.fdr \in DOMAIN d => d[Field.fdr] = Float(50)
        /\ Field.minsize \in DOMAIN d => d[Field.minsize] = Num(50)
        /\ Field.sourcefiles \in DOMAIN d => d[Field.sourcefiles] = Str("all")}

\* field names no kind asks for, and fields of other kinds
ExtraFields == {<<"n", "o", "t", "e">>, <<"N", "o", "t", "e">>, <<"_">>, <<"2">>,
                Field.hemi, Field.fname, Field.regions}

RenameKey(d, k, k2) == DelKey(SetKey(d, k2, d[k]), k)

SetupDicts ==
    FullDicts
    \cup {DelKey(d, k) : d \in PlainDicts, k \in UNION {DOMAIN x : x \in PlainDicts}}
    \cup UNION {{SetKey(d, e, Str("x")) : e \in ExtraFields \ DOMAIN d} :
                    d \in PlainDicts}
    \cup {IF k \in DOMAIN d THEN RenameKey(d, k, Capitalized(k)) ELSE d :
             d \in PlainDicts, k \in UNION {DOMAIN x : x \in PlainDicts}}

AtlasName == "roi"

InitConfig ==
    /\ setupdict \in SetupDicts
    /\ sourcedir \in DirListings
    /\ resolved = NoAtlas
    /\ atlasdict = <<>>
    /\ lutids = {}
    /\ atlasobj = NoAtlas
    /\ subjects = <<>>
    /\ statsfile = <<>>
    /\ extracted = <<>>
    /\ dbfiles = <<>>
    /\ archive = <<>>
    /\ histfile = NoFile
    /\ clock = 1
    /\ nedits = 0
    /\ lastcall = NoCall
    /\ builds = <<>>
    /\ inits = NoInits
    /\ run = NoRun

\* cfg.atlases(atlasname): the setup dictionary is copied, checked and
\* completed
Resolve ==
    /\ resolved' = atlases(AtlasName, setupdict, sourcedir)
    /\ UNCHANGED <<atlasdict, lutids, atlasobj, subjects, statsfile, extracted,
                   clock, nedits, setupdict, sourcedir, inits, run>>
    /\ UNCHANGED dbvars

NextConfig == Resolve

SpecConfig == InitConfig /\ [][NextConfig]_vars

-----------------------------------------------------------------------------
(* Notions the properties are stated in *)

TheAtlas == init_atlas(atlasdict, lutids)

AnalysisOf(n) == CHOOSE an \in Analyses : an.name = n

\* number of regions of the catalog: the flat list, or the lists of the
\* hemispheres the atlas iterates over
RECURSIVE SumLen(_, _)
SumLen(regions, hemis) ==
    IF hemis = <<>> THEN 0
    ELSE Len(regions[Head(hemis)]) + SumLen(regions, Tail(hemis))

CatalogSize(a) ==
    IF a.manifold = "volume" THEN Len(a.regions["vol"])
    ELSE SumLen(a.regions, a.iterhemi)

\* the tables of analysis n are those of a full extraction of all subjects
TablesComplete(a, n, subjs, stats, extr) ==
    \A i \in DOMAIN subjs : \A h \in Scopes(a) :
        /\ stats[subjs[i]][h] = StatsTable(a, subjs[i], h)
        /\ extr[n][subjs[i]][h] =
               ExtractTables(a, Len(AnalysisOf(n).names), subjs[i], h)

\* a table read for analysis n lacks the row of a region the catalog expects
MissingRegion(a, n, subjs, stats, extr) ==
    \E i \in DOMAIN subjs : \E h \in Scopes(a) : \E j \in DOMAIN a.regions[h] :
        /\ stats[subjs[i]][h].exists /\ extr[n][subjs[i]][h].exists
        /\ \/ \A r \in DOMAIN stats[subjs[i]][h].rows :
                  stats[subjs[i]][h].rows[r][2] # a.regions[h][j]
           \/ \A r \in DOMAIN extr[n][subjs[i]][h].funcstats :
                  extr[n][subjs[i]][h].funcstats[r][2] # a.regions[h][j]

\* the written databases, as pairs of the analysis and the table
Written == {an \in Analyses : dbfiles[DbName(atlasdict.atlasname, an)].exists}

DbOf(an) == dbfiles[DbName(atlasdict.atlasname, an)].db

\* the name of region id of hemisphere h as build_database writes it
RowName(a, h, id) ==
    IF a.manifold = "volume" THEN a.lutdict[id]
    ELSE PrefixName(a.lutdict[id], h, ItemSize(AddRois(a)))

\* the step is a build_database call: no table changes, no clock tick
BuildStep == nedits' = nedits /\ clock' = clock /\ lastcall' # NoCall

\* data rows of a database, and the parts of a row
DataRows(db) == 2..Len(db)

FuncCols(row) == 4..(Len(row) - 1)

-----------------------------------------------------------------------------
(* One atlas object and its methods.  atlasdict is the dictionary object    *)
(* the caller holds: the object is constructed from it and build_database   *)
(* is given it.                                                             *)

\* the init flags of an object, the subject and analysis it is set to, the
\* subject the paths of the analysis were built for, the number of external
\* commands run, and the last method called with its outcome
Inits(par, subj, ana, asubj, ncmds, call, arg, err) ==
    [paradigm |-> par, subject |-> subj, analysis |-> ana, asubject |-> asubj,
     ncmds |-> ncmds, call |-> call, arg |-> arg, err |-> err]

\* the outcome of a method: the flags, or the flags as they were and the
\* exception raised
Returned(i, call, arg) == [i EXCEPT !.call = call, !.arg = arg, !.err = ""]

Raised(i, call, arg, e) == [i EXCEPT !.call = call, !.arg = arg, !.err = e]

\* Atlas.init_paradigm
init_paradigm(i) == [i EXCEPT !.paradigm = TRUE]

\* init_subject of the atlas classes: only FreesurferAtlas asks for the
\* paradigm
init_subject(source, i, s) ==
    IF source = "freesurfer" /\ ~i.paradigm THEN [i EXCEPT !.err = "InitError"]
    ELSE [i EXCEPT !.subject = s, !.err = ""]

\* an analysis is taken on whether or not a subject is initialised
init_analysisAnyway(i, an) ==
    [i EXCEPT !.analysis = an, !.asubject = i.subject, !.err = ""]

\* Atlas.init_analysis: the paths of the extraction are built for the
\* subject of the moment
init_analysis(i, an) ==
    IF i.subject = "" THEN [i EXCEPT !.err = "InitError"]
    ELSE [i EXCEPT !.analysis = an, !.asubject = i.subject, !.err = ""]

\* Atlas.__init__ and the subclass constructors: the flags start unset, the
\* paradigm is initialised where the setup has one paradigm only or one is
\* passed, the subject where one is passed
NewInits(source, par, sub) ==
    LET i0 == Inits(par, "", "", "", 0, "__init__", sub # "", "")
    IN IF sub = "" THEN i0 ELSE init_subject(source, i0, sub)

\* the region lists after ids.sort() in _vol_extract / _surf_extract
SortedRegions(a) == [h \in DOMAIN a.regions |-> Sort(a.regions[h])]

\* FreesurferAtlas.__init__, lines 1105-1106: the lists of both hemispheres
\* of an a2009s atlas are the list of the dictionary itself
SharesList(d) == d.source = "freesurfer" /\ d.fname = "aparc.a2009s.annot"

ObjAnalyses == {an \in Analyses : an.name \in {"beta", "tc"}}

\* the frames of the source image of an analysis
Frames(an) == IF an.extract = "timecourse" THEN MaxConds + 1 ELSE Len(an.names)

\* init_atlas(atlasdict, paradigm, subject)
ConstructObj(par, sub) ==
    /\ atlasobj = NoAtlas
    /\ LET a == init_atlas(atlasdict, lutids)
           i == NewInits(atlasdict.source, par, sub)
       IN IF a.err = "" /\ i.err = ""
          THEN atlasobj' = a /\ inits' = i
          ELSE atlasobj' = NoAtlas /\ inits' = NoInits
    /\ UNCHANGED <<atlasdict, lutids, subjects, statsfile, extracted, clock,
                   nedits>>
    /\ UNCHANGED <<cfgvars, dbvars, run>>

\* atlas.init_paradigm(paradigm)
InitParadigm ==
    /\ atlasobj # NoAtlas
    /\ inits' = Returned(init_paradigm(inits), "init_paradigm", TRUE)
    /\ UNCHANGED <<atlasdict, lutids, atlasobj, subjects, statsfile, extracted,
                   clock, nedits>>
    /\ UNCHANGED <<cfgvars, dbvars, run>>

\* atlas.init_subject(s)
InitSubject(s) ==
    /\ atlasobj # NoAtlas
    /\ LET i == init_subject(atlasobj.source, inits, s)
       IN inits' = [i EXCEPT !.call = "init_subject", !.arg = TRUE]
    /\ UNCHANGED <<atlasdict, lutids, atlasobj, subjects, statsfile, extracted,
                   clock, nedits>>
    /\ UNCHANGED <<cfgvars, dbvars, run>>

\* atlas.init_analysis(an)
InitAnalysis(an) ==
    /\ atlasobj # NoAtlas
    /\ LET i == init_analysis(inits, an.name)
       IN inits' = [i EXCEPT !.call = "init_analysis", !.arg = TRUE]
    /\ UNCHANGED <<atlasdict, lutids, atlasobj, subjects, statsfile, extracted,
                   clock, nedits>>
    /\ UNCHANGED <<cfgvars, dbvars, run>>

\* atlas.extract(analysis): the argument is not looked at.  found tells
\* whether the atlas and source images exist.  The id lists are sorted in
\* place, and with them the list of the dictionary where it is the same
\* list; mri_segstats writes the tables at the paths of the analysis
ExtractCall(arg, found) ==
    /\ atlasobj # NoAtlas
    /\ inits.ncmds < MaxEdits + 1
    /\ IF inits.analysis = ""
       THEN /\ inits' = Raised(inits, "extract", arg, "InitError")
            /\ UNCHANGED <<atlasobj, atlasdict, extracted>>
       ELSE IF ~found
       THEN /\ inits' = Raised(inits, "extract", arg, "PreprocessError")
            /\ UNCHANGED <<atlasobj, atlasdict, extracted>>
       ELSE LET an == AnalysisOf(inits.analysis)
                a == [atlasobj EXCEPT !.regions = SortedRegions(atlasobj)]
            IN /\ atlasobj' = a
               /\ atlasdict' = IF SharesList(atlasdict)
                               THEN [atlasdict EXCEPT !.regions = Sort(@)]
                               ELSE atlasdict
               /\ extracted' = [extracted EXCEPT ![an.name][inits.asubject] =
                                   [h \in Scopes(a) |->
                                       ExtractTables(a, Frames(an), inits.asubject, h)]]
               /\ inits' = [Returned(inits, "extract", arg) EXCEPT !.ncmds = @ + 1]
    /\ UNCHANGED <<lutids, subjects, statsfile, clock, nedits>>
    /\ UNCHANGED <<cfgvars, dbvars, run>>

\* atlas.prepare_source_images(analysis): an analysis passed is initialised
\* first.  ran tells whether a command was due (registration, concatenation,
\* sampling, conversion)
PrepareSourceImages(arg, ran) ==
    /\ atlasobj # NoAtlas
    /\ inits.ncmds < MaxEdits + 1
    /\ LET i == IF arg = "" THEN inits ELSE init_analysis(inits, arg)
       IN inits' =
              IF arg # "" /\ i.err # ""
              THEN Raised(inits, "prepare_source_images", TRUE, i.err)
              ELSE IF i.analysis = ""
              THEN Raised(inits, "prepare_source_images", arg # "", "InitError")
              ELSE [Returned(i, "prepare_source_images", arg # "")
                       EXCEPT !.ncmds = IF ran THEN @ + 1 ELSE @]
    /\ UNCHANGED <<atlasdict, lutids, atlasobj, subjects, statsfile, extracted,
                   clock, nedits>>
    /\ UNCHANGED <<cfgvars, dbvars, run>>

\* dictionaries whose databases can be written, with the requested regions
\* in either order
ObjDicts ==
    {Dict("aseg", "freesurfer", "volume", "aseg.mgz", r, "", <<>>) :
        r \in {<<1, 2>>, <<2, 1>>}}
    \cup {Dict("a2009s", "freesurfer", "surface", "aparc.a2009s.annot", r, "", <<>>) :
             r \in {<<1, 2>>, <<2, 1>>}}
    \cup {Dict("mask", "mask", "volume", "", <<>>, "", <<SourceName(1), SourceName(2)>>)}

\* the tables of an extraction of every subject by an earlier object
FullExtracted(a, subjs) ==
    [n \in AnalysisNames |->
        [s \in Range(subjs) |->
            [h \in Scopes(a) |-> ExtractTables(a, Frames(AnalysisOf(n)), s, h)]]]

\* the files of an atlas whose subjects have been extracted before
InitFullOf(d, subjs) ==
        LET lut == LutIds(d, {1, 2})
        IN /\ atlasdict = d
           /\ lutids = lut
           /\ atlasobj = NoAtlas
           /\ subjects = subjs
           /\ statsfile = InitStats(init_atlas(d, lut), subjs)
           /\ extracted = FullExtracted(init_atlas(d, lut), subjs)
           /\ dbfiles = [n \in DbNames(d) |-> NoDb]
           /\ archive = [p \in DbNames(d) \X Dates |-> NoDb]
           /\ histfile = NoFile
           /\ clock = 1
           /\ nedits = 0
           /\ lastcall = NoCall
           /\ builds = [n \in DbNames(d) |-> 0]
           /\ setupdict = <<>>
           /\ sourcedir = <<>>
           /\ resolved = NoAtlas
           /\ inits = NoInits
           /\ run = NoRun

InitFull(d) == InitFullOf(d, <<SubjectName(1)>>)

\* an object is set to one subject after the other
InitObject ==
    \E d \in ObjDicts : InitFullOf(d, <<SubjectName(1), SubjectName(2)>>)

NextObject ==
    \/ \E par \in BOOLEAN, sub \in {""} \cup Range(subjects) : ConstructObj(par, sub)
    \/ InitParadigm
    \/ \E s \in Range(subjects) : InitSubject(s)
    \/ \E an \in ObjAnalyses : InitAnalysis(an)
    \/ \E arg, found \in BOOLEAN : ExtractCall(arg, found)
    \/ \E arg \in {""} \cup {an.name : an \in ObjAnalyses}, ran \in BOOLEAN :
           PrepareSourceImages(arg, ran)
    \/ \E an \in ObjAnalyses : BuildDatabase(an, TRUE)

SpecObject == InitObject /\ [][NextObject]_vars

-----------------------------------------------------------------------------
(* build_database statement by statement: the history step (lines 49-83),   *)
(* the assembly (85-152), np.savetxt of the database (153) and np.save of   *)
(* the history (155).  The process can end between any two of them.         *)

\* the history is saved before the database is written
NextPcSaveFirst(pc) ==
    CASE pc = "assemble" -> "save" [] pc = "save" -> "write" [] OTHER -> "idle"

\* the statement that follows a statement
NextPc(pc) ==
    CASE pc = "assemble" -> "write" [] pc = "write" -> "save" [] OTHER -> "idle"

\* the call under way after the statement at pc: it has returned when no
\* statement is left
Advance(r, pc) == IF NextPc(pc) = "idle" THEN NoRun ELSE [r EXCEPT !.pc = NextPc(pc)]

CallOf(r, e) ==
    [name |-> r.name, an |-> r.an, err |-> e, ver |-> r.ver, date |-> r.date]

Returns(r, pc) == IF NextPc(pc) = "idle" THEN CallOf(r, "") ELSE lastcall

\* lines 49-83: name and date, the history array, the move of the old
\* database
StepHistory(an) ==
    /\ run = NoRun
    /\ TheAtlas.err = ""
    /\ builds[DbName(atlasdict.atlasname, an)] < MaxBuilds
    /\ LET name == DbName(atlasdict.atlasname, an)
           h == History(histfile, name, DateStr(clock), dbfiles, archive)
           r == [pc |-> "assemble", name |-> name, an |-> an.name,
                 date |-> DateStr(clock), ver |-> builds[name] + 1,
                 dbhist |-> h.dbhist, db |-> <<>>,
                 absent |-> InHist(histfile, name) /\ ~dbfiles[name].exists]
       IN IF h.err # ""
          THEN /\ lastcall' = CallOf(r, h.err)
               /\ UNCHANGED <<dbfiles, archive, run>>
          ELSE /\ dbfiles' = h.files
               /\ archive' = h.arch
               /\ run' = r
               /\ lastcall' = lastcall
    /\ UNCHANGED <<atlasdict, lutids, atlasobj, subjects, statsfile, extracted,
                   histfile, clock, nedits, builds, inits>>
    /\ UNCHANGED cfgvars

\* lines 85-152: the table is assembled from the files of the subjects
StepAssemble ==
    /\ run.pc = "assemble"
    /\ LET asm == Assemble(TheAtlas, AnalysisOf(run.an), subjects, statsfile,
                           extracted[run.an])
       IN IF asm.err # ""
          THEN run' = NoRun /\ lastcall' = CallOf(run, asm.err)
          ELSE /\ run' = Advance([run EXCEPT !.db = asm.db], "assemble")
               /\ lastcall' = Returns(run, "assemble")
    /\ UNCHANGED <<atlasdict, lutids, atlasobj, subjects, statsfile, extracted,
                   dbfiles, archive, histfile, clock, nedits, builds, inits>>
    /\ UNCHANGED cfgvars

\* line 153: np.savetxt(dbfile, finaldb)
StepWrite ==
    /\ run.pc = "write"
    /\ dbfiles' = [dbfiles EXCEPT ![run.name] =
                      [exists |-> TRUE, db |-> run.db, ver |-> run.ver]]
    /\ builds' = [builds EXCEPT ![run.name] = @ + 1]
    /\ run' = Advance(run, "write")
    /\ lastcall' = Returns(run, "write")
    /\ UNCHANGED <<atlasdict, lutids, atlasobj, subjects, statsfile, extracted,
                   archive, histfile, clock, nedits, inits>>
    /\ UNCHANGED cfgvars

\* line 155: np.save(histfile, dbhist)
StepSave ==
    /\ run.pc = "save"
    /\ histfile' = run.dbhist
    /\ run' = Advance(run, "save")
    /\ lastcall' = Returns(run, "save")
    /\ UNCHANGED <<atlasdict, lutids, atlasobj, subjects, statsfile, extracted,
                   dbfiles, archive, clock, nedits, builds, inits>>
    /\ UNCHANGED cfgvars

\* the process ends before its next statement
Interrupt ==
    /\ run # NoRun
    /\ run' = NoRun
    /\ lastcall' = CallOf(run, "KeyboardInterrupt")
    /\ UNCHANGED <<atlasdict, lutids, atlasobj, subjects, statsfile, extracted,
                   dbfiles, archive, histfile, clock, nedits, builds, inits>>
    /\ UNCHANGED cfgvars

\* a database file is deleted by hand
RemoveDb(name) ==
    /\ run = NoRun
    /\ nedits < MaxEdits
    /\ dbfiles[name].exists
    /\ dbfiles' = [dbfiles EXCEPT ![name] = NoDb]
    /\ nedits' = nedits + 1
    /\ UNCHANGED <<atlasdict, lutids, atlasobj, subjects, statsfile, extracted,
                   archive, histfile, clock, lastcall, builds, inits, run>>
    /\ UNCHANGED cfgvars

StepDicts == {d \in HistDicts : d.atlasname = "aseg"}

StepAnalyses == {an \in Analyses : an.name \in {"beta", "con"}}

InitSteps == \E d \in StepDicts : InitFull(d)

NextSteps ==
    \/ \E an \in StepAnalyses : StepHistory(an)
    \/ StepAssemble
    \/ StepWrite
    \/ StepSave
    \/ Interrupt
    \/ \E name \in DOMAIN dbfiles : RemoveDb(name)
    \/ run = NoRun /\ Tick

SpecSteps == InitSteps /\ [][NextSteps]_vars

-----------------------------------------------------------------------------
(* build_database over functional tables whose number of regions is not     *)
(* that of the catalog.  functxt and funcstats are two files that           *)
(* mri_segstats writes for one extraction (--avgwf, --sum); build_database  *)
(* reads each on its own.                                                   *)

\* the functional table of subject s comes to hold one column for every id
\* of the list, as an extraction with these --id arguments writes it; the
\* masked-size table stays the one of the catalog
FuncColumns(an, s, ids) ==
    /\ nedits < MaxEdits + 1
    /\ extracted[an.name][s]["vol"].exists
    /\ extracted' = [extracted EXCEPT ![an.name][s]["vol"].functxt =
                        [f \in 1..Len(an.names) |->
                            [j \in DOMAIN ids |-> FuncVal(s, "vol", ids[j], f)]]]
    /\ nedits' = nedits + 1
    /\ UNCHANGED <<atlasdict, lutids, atlasobj, subjects, statsfile, dbfiles,
                   archive, histfile, clock, lastcall, builds>>
    /\ UNCHANGED <<cfgvars, inits, run>>

RowDicts ==
    {Dict("aseg", "freesurfer", "volume", "aseg.mgz", <<1>>, "", <<>>)}

RowAnalyses == {an \in Analyses : an.name = "beta"}

InitRows ==
    \E d \in RowDicts :
        InitWith(d, LutIds(d, {1, 2}), <<SubjectName(1), SubjectName(2)>>)

NextRows ==
    \/ \E an \in RowAnalyses : GroupExtract(an, TRUE)
    \/ \E an \in RowAnalyses : BuildDatabase(an, TRUE)
    \/ \E an \in RowAnalyses, s \in Range(subjects), S \in SUBSET lutids :
           S # {} /\ FuncColumns(an, s, SetToSeq(S))

SpecRows == InitRows /\ [][NextRows]_vars

-----------------------------------------------------------------------------
(* Atlas.group_extract and Atlas.group_process, subject by subject.  run    *)
(* holds the method under way: the index of the next subject, the subjects  *)
(* whose extraction has returned, and the number of build_database calls.   *)

\* debug mode writes a database all the same
BuildsDatabaseAlways(debug) == TRUE

\* lines 918 and 987: if not self.debug
BuildsDatabase(debug) == ~debug

\* Atlas._extract_exists for subject s
extract_exists(n, s) ==
    \A h \in DOMAIN extracted[n][s] : extracted[n][s][h].exists

\* the call of group_extract(analysis, subjects) or
\* group_process(analysis, subjects, force) on an atlas object
GroupStart(method, an, debug, force) ==
    /\ run = NoRun
    /\ TheAtlas.err = ""
    /\ builds[DbName(atlasdict.atlasname, an)] < MaxBuilds
    /\ run' = [pc |-> "loop", method |-> method, an |-> an.name,
               debug |-> debug, force |-> force, i |-> 1, done |-> <<>>,
               nbuilds |-> 0]
    /\ UNCHANGED <<atlasdict, lutids, atlasobj, subjects, statsfile, extracted,
                   clock, nedits, inits>>
    /\ UNCHANGED <<cfgvars, dbvars>>

\* one pass of the subject loop: the init calls and extract(), or process().
\* found tells whether the atlas and source images exist when extract()
\* looks for them; extract() raises PreprocessError where they do not and
\* the object is not in debug mode.  process() leaves extract() out where
\* the functional table exists and force is off
GroupSubject(found) ==
    /\ run # NoRun /\ run.pc = "loop" /\ run.i <= Len(subjects)
    /\ LET s == subjects[run.i]
           an == AnalysisOf(run.an)
           skip == /\ run.method = "group_process"
                   /\ ~run.force
                   /\ extract_exists(run.an, s)
       IN IF ~skip /\ ~found /\ ~run.debug
          THEN run' = NoRun /\ extracted' = extracted
          ELSE /\ run' = [run EXCEPT !.i = @ + 1, !.done = Append(@, s)]
               /\ extracted' =
                      IF skip \/ ~found THEN extracted
                      ELSE [extracted EXCEPT ![run.an][s] =
                               [h \in Scopes(TheAtlas) |->
                                   ExtractTables(TheAtlas, Len(an.names), s, h)]]
    /\ UNCHANGED <<atlasdict, lutids, atlasobj, subjects, statsfile, clock,
                   nedits, inits>>
    /\ UNCHANGED <<cfgvars, dbvars>>

\* lines 918-921 and 987-990: after the loop build_database is called unless
\* the object is in debug mode
GroupAfter ==
    /\ run # NoRun /\ run.pc = "loop" /\ run.i > Len(subjects)
    /\ IF BuildsDatabase(run.debug)
       THEN LET r == BuildResult(AnalysisOf(run.an), extracted[run.an])
            IN /\ dbfiles' = r.files
               /\ archive' = r.arch
               /\ histfile' = r.hist
               /\ lastcall' = r.call
               /\ builds' = Counted(TRUE, r.call)
               /\ run' = [run EXCEPT !.pc = "return", !.nbuilds = @ + 1]
       ELSE /\ run' = [run EXCEPT !.pc = "return"]
            /\ UNCHANGED dbvars
    /\ UNCHANGED <<atlasdict, lutids, atlasobj, subjects, statsfile, extracted,
                   clock, nedits, inits>>
    /\ UNCHANGED cfgvars

\* the method returns its result, or the exception of build_database leaves it
GroupReturn ==
    /\ run # NoRun /\ run.pc = "return"
    /\ run' = NoRun
    /\ UNCHANGED <<atlasdict, lutids, atlasobj, subjects, statsfile, extracted,
                   clock, nedits, inits>>
    /\ UNCHANGED <<cfgvars, dbvars>>

GroupAnalyses == {an \in Analyses : an.name \in {"beta", "con"}}

InitGroup == \E d \in HistDicts, subjs \in SubjectLists :
                 InitWith(d, LutIds(d, {1, 2}), subjs)

NextGroup ==
    \/ \E method \in {"group_extract", "group_process"}, an \in GroupAnalyses,
          debug, force \in BOOLEAN : GroupStart(method, an, debug, force)
    \/ \E found \in BOOLEAN : GroupSubject(found)
    \/ GroupAfter
    \/ GroupReturn

SpecGroup == InitGroup /\ [][NextGroup]_vars

-----------------------------------------------------------------------------
(* The contrasts of a paradigm: setup.contrasts[par] maps contrast names to *)
(* contrast numbers.  setupdict holds the dictionary and the order in which *)
(* the interpreter iterates over it, which is that of the hash table and    *)
(* not that of the names or the numbers.                                    *)

\* "%04d" % n
Pad4(n) == [i \in 1..(4 - Len(Digits(n))) |-> "0"] \o Digits(n)

\* "con_%04d%s" % (contrasts[con], format), lines 510-513
con_img(n, format) == <<"c", "o", "n", "_">> \o Pad4(n) \o <<format>>

\* cfg.contrasts(par, "con-img", format): name -> image file
contrasts_con(con, format) == [k \in DOMAIN con |-> con_img(con[k], format)]

\* cfg.contrasts(par, "names"), lines 515-520: for every contrast number in
\* ascending order, the first name of contrasts.items() with that number
contrasts_names(con, items) ==
    LET connums == Sort([i \in DOMAIN items |-> con[items[i]]])
    IN [i \in DOMAIN connums |->
           items[CHOOSE j \in DOMAIN items :
                     /\ con[items[j]] = connums[i]
                     /\ \A l \in DOMAIN items : con[items[l]] = connums[i] => j <= l]]

\* ContrastImage.init_subject, lines 198-202: the images to concatenate, in
\* the order of imgdict.items()
extractlist(con, items) ==
    LET imgdict == contrasts_con(con, ".img")
    IN [i \in DOMAIN items |-> imgdict[items[i]]]

ContrastNumbers == 1..(MaxConds + 3)

\* dictionaries of MaxConds contrasts with pairwise distinct numbers, with
\* every iteration order of their names
ContrastSetups ==
    {[con |-> [i \in 1..MaxConds |-> nums[i]], items |-> items] :
        nums \in DistinctSeqs(ContrastNumbers, MaxConds) \cap
                     [1..MaxConds -> ContrastNumbers],
        items \in DistinctSeqs(1..MaxConds, MaxConds) \cap
                      [1..MaxConds -> 1..MaxConds]}

NoContrasts == [names |-> <<>>, extractlist |-> <<>>]

InitContrasts ==
    /\ setupdict \in ContrastSetups
    /\ sourcedir = <<>>
    /\ resolved = NoContrasts
    /\ atlasdict = <<>>
    /\ lutids = {}
    /\ atlasobj = NoAtlas
    /\ subjects = <<>>
    /\ statsfile = <<>>
    /\ extracted = <<>>
    /\ dbfiles = <<>>
    /\ archive = <<>>
    /\ histfile = NoFile
    /\ clock = 1
    /\ nedits = 0
    /\ lastcall = NoCall
    /\ builds = <<>>
    /\ inits = NoInits
    /\ run = NoRun

\* build_database, line 96: the functional header of a contrast analysis
ContrastHeader ==
    /\ resolved.names = <<>>
    /\ resolved' = [resolved EXCEPT
                       !.names = [i \in 1..MaxConds |->
                                     ContrastName(
                                         contrasts_names(setupdict.con,
                                                         setupdict.items)[i])]]
    /\ UNCHANGED <<atlasdict, lutids, atlasobj, subjects, statsfile, extracted,
                   clock, nedits, setupdict, sourcedir, inits, run>>
    /\ UNCHANGED dbvars

\* ContrastImage.init_subject, whose extractlist concatenate() passes to
\* mri_concat: frame i of the source image is image i of the list
ContrastInitSubject ==
    /\ resolved.extractlist = <<>>
    /\ resolved' = [resolved EXCEPT
                       !.extractlist = extractlist(setupdict.con, setupdict.items)]
    /\ UNCHANGED <<atlasdict, lutids, atlasobj, subjects, statsfile, extracted,
                   clock, nedits, setupdict, sourcedir, inits, run>>
    /\ UNCHANGED dbvars

NextContrasts == ContrastHeader \/ ContrastInitSubject

SpecContrasts == InitContrasts /\ [][NextContrasts]_vars

-----------------------------------------------------------------------------
(* One history for the databases of several atlases: the history file and   *)
(* the database directory belong to the project (lines 53-58), and           *)
(* group_extract is called on one atlas after the other                      *)

LedgerNames == UNION {DbNames(d) : d \in HistDicts}

LedgerAnalyses == {an \in Analyses : an.name = "beta"}

InitLedger ==
    \E d \in HistDicts :
        /\ atlasdict = d
        /\ lutids = LutIds(d, {1, 2})
        /\ atlasobj = NoAtlas
        /\ subjects = <<SubjectName(1)>>
        /\ statsfile = InitStats(init_atlas(d, LutIds(d, {1, 2})), <<SubjectName(1)>>)
        /\ extracted = InitExtracted(init_atlas(d, LutIds(d, {1, 2})), <<SubjectName(1)>>)
        /\ dbfiles = [n \in LedgerNames |-> NoDb]
        /\ archive = [p \in LedgerNames \X Dates |-> NoDb]
        /\ histfile = NoFile
        /\ clock = 1
        /\ nedits = 0
        /\ lastcall = NoCall
        /\ builds = [n \in LedgerNames |-> 0]
        /\ setupdict = <<>>
        /\ sourcedir = <<>>
        /\ resolved = NoAtlas
        /\ inits = NoInits
        /\ run = NoRun

\* init_atlas with the dictionary of another atlas of the project.  The
\* tables of an atlas lie in its own directories, and group_extract writes
\* the tables of its analysis anew before the database is built
UseAtlas(d) ==
    /\ d # atlasdict
    /\ atlasdict' = d
    /\ lutids' = LutIds(d, {1, 2})
    /\ statsfile' = InitStats(init_atlas(d, LutIds(d, {1, 2})), subjects)
    /\ extracted' = InitExtracted(init_atlas(d, LutIds(d, {1, 2})), subjects)
    /\ UNCHANGED <<atlasobj, subjects, dbfiles, archive, histfile, clock, nedits,
                   lastcall, builds>>
    /\ UNCHANGED <<cfgvars, inits, run>>

NextLedger ==
    \/ \E an \in LedgerAnalyses : GroupExtract(an, TRUE)
    \/ \E d \in HistDicts : UseAtlas(d)
    \/ Tick

SpecLedger == InitLedger /\ [][NextLedger]_vars

-----------------------------------------------------------------------------
(* C1: build_database over S subjects and a catalog of R regions writes one *)
(* header row and S*R data rows, for every kind of atlas (freesurfer volume *)
(* and surface, fsl, mask, label, sigsurf).  Stated for the calls that find *)
(* the tables of a full extraction and a history of at most one entry, with *)
(* two or more regions in every scope and two or more beta or contrast      *)
(* names.                                                                   *)
C1_RowCount ==
    [][(/\ BuildStep
        /\ TheAtlas.err = ""
        /\ histfile.nd < 2
        /\ Len(AnalysisOf(lastcall'.an).names) >= 2
        /\ \A h \in Scopes(TheAtlas) : Len(TheAtlas.regions[h]) >= 2
        /\ TablesComplete(TheAtlas, lastcall'.an, subjects, statsfile', extracted'))
       => /\ lastcall'.err = ""
          /\ dbfiles'[lastcall'.name].exists
          /\ Len(dbfiles'[lastcall'.name].db) =
                 1 + Len(subjects) * CatalogSize(TheAtlas)]_vars

(* C2: in every data row of a written database the functional values, the   *)
(* base size, the final size and the region name belong to one region id of *)
(* one subject and hemisphere, whatever the order of the requested regions. *)
C2_RowOfOneRegion ==
    \A an \in Written : \A r \in DataRows(DbOf(an)) :
        LET row == DbOf(an)[r]
            size == row[3]
        IN /\ \A c \in FuncCols(row) \cup {Len(row)} :
                  /\ row[c].id = size.id
                  /\ row[c].h = size.h
                  /\ row[c].s = size.s
           /\ row[1].w = size.s
           /\ row[2].txt = RowName(TheAtlas, size.h, size.id)

\* a surface atlas that iterates over both hemispheres
TwoHemis(a) == a.err = "" /\ a.manifold = "surface" /\ a.iterhemi = <<"lh", "rh">>

\* row j of hemisphere h in the block of subject s: the row is named for
\* the j-th region of the hemisphere's catalog, and its sizes and functional
\* values are cells of the tables of that subject and hemisphere
HemiRow(row, a, s, h, j) ==
    LET id == a.regions[h][j]
    IN /\ row[1] = Word(s)
       /\ row[2] = Text(RowName(a, h, id))
       /\ row[3] = SizeVal(s, h, id)
       /\ row[Len(row)] = MaskVal(s, h, id)
       /\ \A c \in FuncCols(row) :
              /\ row[c].k = "func" /\ row[c].s = s /\ row[c].h = h
              /\ row[c].f = c - 3

(* C3: for a surface atlas with n regions in either hemisphere, the block   *)
(* of each subject has 2n rows: first the n left-hemisphere regions in      *)
(* catalog order with values of the lh tables, then the n right-hemisphere  *)
(* regions in catalog order with values of the rh tables.                   *)
C3_SurfaceBlocks ==
    TwoHemis(TheAtlas) =>
        \A an \in Written :
            LET a == TheAtlas
                db == DbOf(an)
                n == Len(a.regions["lh"])
            IN /\ Len(a.regions["rh"]) = n
               /\ Len(db) = 1 + Len(subjects) * 2 * n
               /\ \A i \in DOMAIN subjects : \A j \in 1..n :
                      /\ HemiRow(db[1 + (i - 1) * 2 * n + j], a, subjects[i], "lh", j)
                      /\ HemiRow(db[1 + (i - 1) * 2 * n + n + j], a, subjects[i], "rh", j)

\* a database of a surface atlas with two regions per hemisphere or more,
\* written for two subjects or more
C3_Witness ==
    /\ TwoHemis(TheAtlas)
    /\ Len(TheAtlas.regions["lh"]) >= 2
    /\ Len(subjects) >= 2
    /\ Written # {}

(* C4: when the size table or the masked-size table of some subject has no *)
(* row for a region id of the catalog, build_database raises, no default    *)
(* takes the place of the value, and nothing is written at the primary path *)
(* of the database: the file there is the one from before the call or none, *)
(* and the history file stays as it was.                                    *)
C4_MissingRegionRaises ==
    [][(/\ BuildStep
        /\ TheAtlas.err = ""
        /\ MissingRegion(TheAtlas, lastcall'.an, subjects, statsfile', extracted'))
       => /\ lastcall'.err # ""
          /\ dbfiles'[lastcall'.name] \in {dbfiles[lastcall'.name], NoDb}
          /\ histfile' = histfile]_vars

\* a call that found a table of several rows without the row of a region,
\* for a database that had been written before
C4_Witness ==
    /\ lastcall.err = "IndexError"
    /\ MissingRegion(TheAtlas, lastcall.an, subjects, statsfile, extracted)
    /\ \A s \in Range(subjects) : \A h \in Scopes(TheAtlas) :
           /\ Len(statsfile[s][h].rows) >= 2
           /\ Len(extracted[lastcall.an][s][h].funcstats) >= 2
    /\ InHist(histfile, lastcall.name)

\* the archive files of a database name
ArchiveOf(arch, name) == {p \in DOMAIN arch : p[1] = name /\ arch[p].exists}

\* the history file maps the name to the date, and to no other date
LedgerDate(hist, name, date) ==
    /\ \E i \in DOMAIN hist.d : hist.d[i][1] = name
    /\ \A i \in DOMAIN hist.d : hist.d[i][1] = name => hist.d[i][2] = date

(* C5: after two consecutive successful build_database calls for a database *)
(* name, the first two writes of that name, the primary path holds the      *)
(* second content, exactly one archive file exists for the name and holds   *)
(* the first content, and the history file maps the name to the timestamp   *)
(* of the second call.                                                      *)
C5_TwoWrites ==
    [][(/\ BuildStep
        /\ lastcall.err = "" /\ lastcall'.err = ""
        /\ lastcall.name = lastcall'.name
        /\ builds[lastcall.name] = 1)
       => LET D == lastcall'.name
          IN /\ dbfiles'[D].exists
             /\ dbfiles'[D].ver = lastcall'.ver
             /\ dbfiles'[D].ver # lastcall.ver
             /\ Cardinality(ArchiveOf(archive', D)) = 1
             /\ \A p \in ArchiveOf(archive', D) : archive'[p].ver = lastcall.ver
             /\ LedgerDate(histfile', D, lastcall'.date)]_vars

\* the second write of a database has succeeded, in a later minute than the
\* first
C5_Witness ==
    /\ lastcall.err = ""
    /\ builds[lastcall.name] = 2
    /\ dbfiles[lastcall.name].ver = 2
    /\ lastcall.date = DateStr(2)
    /\ \E p \in ArchiveOf(archive, lastcall.name) : archive[p].ver = 1

(* C6: the move of an old database to the archive never overwrites an       *)
(* archive file that exists: an archived version stays as it is.            *)
C6_ArchiveKept ==
    [][\A p \in DOMAIN archive : archive[p].exists => archive'[p] = archive[p]]_vars

(* C7: between calls, every database that has been written successfully is  *)
(* at its primary path with the content of the latest successful write.     *)
C7_PrimaryCurrent ==
    \A name \in DOMAIN builds :
        builds[name] >= 1 =>
            /\ dbfiles[name].exists
            /\ dbfiles[name].ver = builds[name]

\* the unit of the size headers of the atlas
Units(a) == IF a.manifold = "volume" THEN "voxels" ELSE "vertices"

FuncCells(row) == {c \in DOMAIN row : row[c].k = "func"}

(* C9: in every written database all data rows carry a functional vector of *)
(* one length, the number of beta or contrast names of the analysis, which  *)
(* is the number of functional columns of the header.                       *)
C9_FuncWidth ==
    \A an \in Written :
        LET db == DbOf(an)
            K == Len(an.names)
        IN /\ Len(db[1]) = 4 + K
           /\ \A c \in 1..K : db[1][3 + c] = Word(an.names[c])
           /\ \A r \in DataRows(db) :
                  /\ Cardinality(FuncCells(db[r])) = K
                  /\ Len(db[r]) = 4 + K

\* a database of two conditions or more is written for two subjects or more
C9_Witness ==
    /\ Len(subjects) >= 2
    /\ \E an \in Written : Len(an.names) >= 2 /\ Len(DbOf(an)) >= 5

\* the hemisphere scopes of a constructed atlas hold no region id twice
ScopesNoDup(a) == \A h \in DOMAIN a.regions : NoDup(a.regions[h])

LoweredFields(d) == {Lower(k) : k \in DOMAIN d} \cup {Field.atlasname}

\* the source kind a setup dictionary names
SourceOf(d) ==
    IF \E k \in DOMAIN d : Lower(k) = Field.source
    THEN d[CHOOSE k \in DOMAIN d : Lower(k) = Field.source].s[1]
    ELSE ""

(* C11: cfg.atlases resolves a dictionary of a supported source kind        *)
(* (freesurfer, fsl, sigsurf, label, mask) only if its field names, after   *)
(* lower-casing and with the injected atlasname, are exactly the mandatory  *)
(* fields of the kind: a missing field and an unexpected field both raise.  *)
C11_ExactFields ==
    (resolved # NoAtlas /\ resolved.err = "" /\ SourceOf(setupdict) \in SourceKinds)
        => LoweredFields(setupdict) = atlasfields(SourceOf(setupdict))

\* the setup dictionary is a complete label or mask dictionary whose
\* sourcefiles field is a list of files
ExplicitSources(d) ==
    /\ SourceOf(d) \in {"label", "mask"}
    /\ DOMAIN d \cup {Field.atlasname} = atlasfields(SourceOf(d))
    /\ d[Field.sourcefiles].t = "list"
    /\ d[Field.sourcefiles].f # <<>>

(* C15: for a label or mask atlas whose dictionary lists k source files,    *)
(* the resolved source files are those k files in the given order, region   *)
(* ids 1..k go to them in that order, and the directory listing plays no    *)
(* part.                                                                    *)
C15_ExplicitList ==
    (resolved # NoAtlas /\ ExplicitSources(setupdict)) =>
        LET given == setupdict[Field.sourcefiles].f
        IN /\ resolved.err = ""
           /\ Len(resolved.d[Field.sourcefiles].f) = Len(given)
           /\ \A i \in DOMAIN given :
                  /\ resolved.d[Field.sourcefiles].f[i].stem = given[i].stem
                  /\ resolved.d[Field.sourcefiles].f[i].ext = given[i].ext
           /\ SourcenamesToLutdict(resolved.d[Field.sourcenames].s) =
                  [i \in DOMAIN given |-> given[i].stem]

\* a surface atlas of one hemisphere: label and sigsurf atlases
OneHemi(a) == a.err = "" /\ a.manifold = "surface" /\ Len(a.iterhemi) = 1

(* C12: build_database for a surface atlas of a single hemisphere h with R  *)
(* regions completes and writes R rows per subject, whose sizes and         *)
(* functional values stem from the tables of hemisphere h only.  Stated for *)
(* calls that find the tables of a full extraction, two or more regions,    *)
(* two or more beta or contrast names and a history of at most one entry.   *)
C12_OneHemiRows ==
    [][(/\ BuildStep
        /\ OneHemi(TheAtlas)
        /\ histfile.nd < 2
        /\ Len(AnalysisOf(lastcall'.an).names) >= 2
        /\ Len(TheAtlas.regions[TheAtlas.iterhemi[1]]) >= 2
        /\ TablesComplete(TheAtlas, lastcall'.an, subjects, statsfile', extracted'))
       => LET db == dbfiles'[lastcall'.name].db
              R == Len(TheAtlas.regions[TheAtlas.iterhemi[1]])
          IN /\ lastcall'.err = ""
             /\ dbfiles'[lastcall'.name].exists
             /\ Len(db) = 1 + Len(subjects) * R
             /\ \A r \in DataRows(db) : \A c \in 3..Len(db[r]) :
                    db[r][c].h = TheAtlas.iterhemi[1]]_vars

(* C13: for a volume atlas the rows of each subject's block of a written    *)
(* database are in ascending order of the region id the row is named for    *)
(* and carries the sizes of, whatever the order of the requested regions.   *)
C13_VolumeAscending ==
    (TheAtlas.err = "" /\ TheAtlas.manifold = "volume") =>
        \A an \in Written :
            LET db == DbOf(an)
                R == Len(TheAtlas.regions["vol"])
            IN \A i \in DOMAIN subjects : \A j \in 1..(R - 1) :
                   LET r == 1 + (i - 1) * R + j
                   IN /\ r + 1 <= Len(db)
                      /\ db[r][3].s = subjects[i]
                      /\ db[r][3].id < db[r + 1][3].id

(* C14: two successful build_database runs for the same atlas dictionary,   *)
(* analysis and subject list over the same tables write the same rows in    *)
(* the same order, whatever the timestamp, the history file, or the calls   *)
(* made on an atlas object in between.                                      *)
C14_SameRows ==
    [][(/\ lastcall.err = "" /\ lastcall'.err = ""
        /\ lastcall'.name = lastcall.name
        /\ builds'[lastcall.name] = builds[lastcall.name] + 1
        /\ dbfiles[lastcall.name].exists
        /\ statsfile = InitStats(TheAtlas, subjects)
        /\ extracted = FullExtracted(TheAtlas, subjects))
       => dbfiles'[lastcall.name].db = dbfiles[lastcall.name].db]_vars

\* the step is a call of method c on the atlas object
MethodStep(c) == atlasobj # NoAtlas /\ inits' # inits /\ inits'.call = c

\* the call raised InitError and left the flags, the commands run, the
\* tables and the region lists as they were
GuardRaised ==
    /\ inits'.err = "InitError"
    /\ inits'.paradigm = inits.paradigm
    /\ inits'.subject = inits.subject
    /\ inits'.analysis = inits.analysis
    /\ inits'.asubject = inits.asubject
    /\ inits'.ncmds = inits.ncmds
    /\ extracted' = extracted
    /\ atlasobj' = atlasobj

C17_NoLedger ==
    [][(BuildStep /\ TheAtlas.err = "" /\ histfile = NoFile)
       => LET D == lastcall'.name
              asm == Assemble(TheAtlas, AnalysisOf(lastcall'.an), subjects,
                              statsfile, extracted'[lastcall'.an])
          IN /\ lastcall'.err = asm.err
             /\ archive' = archive
             /\ lastcall'.err # "" => histfile' = NoFile /\ dbfiles' = dbfiles
             /\ lastcall'.err = ""
                    => /\ dbfiles'[D].exists /\ dbfiles'[D].db = asm.db
                       /\ histfile'.nd = 1
                       /\ histfile'.d = <<<<D, lastcall'.date>>>>]_vars

\* the first database of the directory has been written: the history holds
\* its name and date and nothing else, and no archive file exists
C17_Witness ==
    /\ histfile # NoFile /\ histfile.nd = 1
    /\ lastcall.err = "" /\ builds[lastcall.name] = 1
    /\ histfile.d = <<<<lastcall.name, lastcall.date>>>>
    /\ \A p \in DOMAIN archive : ~archive[p].exists

\* date of name in a history array of one entry
OldDate(hist) == hist.d[1][2]

(* C18: in a build_database call for a name D that has an entry in the      *)
(* history, the existing database is first moved to the archive path of the *)
(* entry's previous timestamp, then the new content is written to the       *)
(* primary path, then the history with D's new timestamp is saved: the      *)
(* history file is never written before the database of the call.           *)
C18_StepOrder ==
    [][/\ (run = NoRun /\ run' # NoRun /\ InHist(histfile, run'.name)
              /\ dbfiles[run'.name].exists)
          => /\ archive'[<<run'.name, OldDate(histfile)>>] = dbfiles[run'.name]
             /\ ~dbfiles'[run'.name].exists
             /\ histfile' = histfile
       /\ (run # NoRun /\ dbfiles' # dbfiles)
          => /\ run.pc = "write"
             /\ dbfiles'[run.name].ver = run.ver
             /\ histfile' = histfile /\ archive' = archive
       /\ (histfile' # histfile)
          => /\ run # NoRun /\ run.pc = "save"
             /\ dbfiles[run.name].exists /\ dbfiles[run.name].ver = run.ver
             /\ dbfiles' = dbfiles /\ archive' = archive
             /\ LedgerDate(histfile', run.name, run.date)]_vars

\* a call for a database with a history entry has returned: its content is
\* at the primary path, the content it found there is in the archive under
\* the date of the earlier write, and the history holds the new date
C18_Witness ==
    /\ run = NoRun /\ lastcall.err = "" /\ lastcall.ver = 2
    /\ lastcall.date = DateStr(2)
    /\ dbfiles[lastcall.name].exists /\ dbfiles[lastcall.name].ver = 2
    /\ archive[<<lastcall.name, DateStr(1)>>].exists
    /\ archive[<<lastcall.name, DateStr(1)>>].ver = 1
    /\ LedgerDate(histfile, lastcall.name, DateStr(2))

(* C19: over build_database runs that may be interrupted between the move   *)
(* to the archive, the write of the database and the save of the history,   *)
(* an archived version is never overwritten or removed by a run, and a      *)
(* version at the primary path is never overwritten by a run unless it was  *)
(* archived first.                                                          *)
C19_NothingLost ==
    [][(run # NoRun \/ run' # NoRun) =>
          /\ \A p \in DOMAIN archive :
                 archive[p].exists => archive'[p] = archive[p]
          /\ \A n \in DOMAIN dbfiles :
                 (dbfiles[n].exists /\ dbfiles'[n] # dbfiles[n])
                     => \E p \in DOMAIN archive' : archive'[p] = dbfiles[n]]_vars

Degenerate(a, an) ==
    \/ \E h \in Scopes(a) : Len(a.regions[h]) = 1
    \/ Len(an.names) = 1

(* C21: build_database does not fail on a degenerate table shape: where a   *)
(* size, masked-size or functional table has one row (one region) or one    *)
(* value column (one beta or contrast name), a call that finds the tables   *)
(* of a full extraction returns and writes one header row and S*R data rows *)
(* as in the general case.                                                  *)
C21_DegenerateShape ==
    [][(/\ BuildStep
        /\ TheAtlas.err = ""
        /\ RoisOk(TheAtlas)
        /\ histfile.nd < 2
        /\ AnalysisOf(lastcall'.an).extract # "timecourse"
        /\ Degenerate(TheAtlas, AnalysisOf(lastcall'.an))
        /\ TablesComplete(TheAtlas, lastcall'.an, subjects, statsfile', extracted'))
       => /\ lastcall'.err = ""
          /\ dbfiles'[lastcall'.name].exists
          /\ Len(dbfiles'[lastcall'.name].db) =
                 1 + Len(subjects) * CatalogSize(TheAtlas)]_vars

\* the number of region rows build_database recovers from the functional
\* table of a subject: the columns of functxt, one per region
FuncRows(ex) == NCols(ex.functxt)

\* some subject's functional table of analysis n has not the number of
\* regions of the catalog
RowMismatch(a, n, subjs, extr) ==
    \E i \in DOMAIN subjs : \E h \in Scopes(a) :
        /\ extr[n][subjs[i]][h].exists
        /\ FuncRows(extr[n][subjs[i]][h]) # Len(a.regions[h])

(* C22: when for some subject (and hemisphere) the number of region rows    *)
(* recovered from the subject's table is not the number of regions of the   *)
(* catalog, build_database raises and writes nothing at the primary path;   *)
(* a surplus of one subject is never made up for by a deficit of another.   *)
C22_RowCountChecked ==
    [][(/\ BuildStep
        /\ TheAtlas.err = ""
        /\ RowMismatch(TheAtlas, lastcall'.an, subjects, extracted'))
       => /\ lastcall'.err # ""
          /\ dbfiles'[lastcall'.name] \in {dbfiles[lastcall'.name], NoDb}]_vars

(* C23: in a database of a surface atlas over any number of subjects, the   *)
(* name of every row of hemisphere h is the prefix 'h-' followed by the     *)
(* whole name of the region in the look-up table, with no character lost,   *)
(* and the prefix is there once, for the first subject as for the later     *)
(* ones.                                                                    *)
C23_PrefixedNames ==
    TwoHemis(TheAtlas) =>
        \A an \in Written : \A r \in DataRows(DbOf(an)) :
            LET row == DbOf(an)[r]
            IN row[2].txt = HemiChars(row[3].h) \o <<"-">> \o
                                TheAtlas.lutdict[row[3].id]

(* C24: once an atlas object is constructed, no operation on it changes     *)
(* the content or the order of its region id lists (regions, all_regions)   *)
(* or of the region list of its atlas dictionary.                           *)
C24_CatalogReadOnly ==
    [][(atlasobj # NoAtlas /\ atlasobj' # NoAtlas)
          => /\ atlasobj'.regions = atlasobj.regions
             /\ atlasobj'.all_regions = atlasobj.all_regions
             /\ atlasdict'.regions = atlasdict.regions]_vars

\* a complete sigsurf dictionary of the setup module
SigsurfSetup(d) ==
    /\ SourceOf(d) = "sigsurf"
    /\ DOMAIN d \cup {Field.atlasname} = atlasfields("sigsurf")

(* C25: where a sigsurf dictionary gives its numeric settings as strings,   *)
(* cfg.atlases turns each into a number of its own field: fdr becomes the   *)
(* float it denotes, minsize the integer it denotes, the conversion of one  *)
(* leaves the other alone, and a string that is no number raises            *)
(* SetupError.                                                              *)
C25_NumericSettings ==
    (resolved # NoAtlas /\ SigsurfSetup(setupdict)) =>
        LET fdr == setupdict[Field.fdr]
            ms == setupdict[Field.minsize]
        IN IF fdr.t = "str" /\ ~IsFloatStr(fdr.s[1])
           THEN resolved.err = "SetupError"
           ELSE /\ resolved.err = ""
                /\ resolved.d[Field.fdr] =
                       IF fdr.t = "str" THEN Float(ParseFloat(fdr.s[1])) ELSE fdr
                /\ resolved.d[Field.minsize] =
                       IF ms.t = "str" THEN IntOf(ms).d ELSE ms

\* s is a prefix of t
IsPrefix(s, t) == Len(s) <= Len(t) /\ s = SubSeq(t, 1, Len(s))

(* C26: in group_extract and group_process build_database is called at most *)
(* once, only when the extraction of every subject of the list has         *)
(* returned, in list order, and never in debug mode; where the extraction   *)
(* of a subject raises, build_database is not called and neither the        *)
(* history file nor the primary path is touched.                            *)
C26_BuildAfterAll ==
    [][/\ (dbvars' # dbvars)
          => /\ run # NoRun /\ run.pc = "loop"
             /\ run.done = subjects
             /\ ~run.debug
             /\ run.nbuilds = 0 /\ run' # NoRun /\ run'.nbuilds = 1
       /\ (run' # NoRun)
          => /\ run'.nbuilds <= 1
             /\ run'.debug => run'.nbuilds = 0
             /\ run'.nbuilds = 1 => run'.done = subjects
             /\ IsPrefix(run'.done, subjects)
       /\ (run # NoRun /\ run.pc = "loop" /\ run' = NoRun)
          => dbvars' = dbvars]_vars

\* a group method over two subjects has called build_database, which wrote
\* the database
C26_Witness ==
    /\ run # NoRun /\ run.pc = "return"
    /\ run.nbuilds = 1
    /\ run.done = subjects /\ Len(subjects) >= 2
    /\ lastcall.err = "" /\ dbfiles[lastcall.name].exists

\* the number of the contrast of name ContrastName(i)
NumberOfName(con, name) == con[CHOOSE i \in DOMAIN con : ContrastName(i) = name]

(* C27: for a contrast analysis the k-th functional column holds the value  *)
(* of the contrast named by the k-th entry of the functional header: the    *)
(* order in which the contrast images are concatenated for the extraction   *)
(* is the order of the header names, which is that of the contrast numbers. *)
C27_ColumnOrder ==
    (resolved.names # <<>> /\ resolved.extractlist # <<>>) =>
        \A k \in DOMAIN resolved.names :
            resolved.extractlist[k] =
                con_img(NumberOfName(setupdict.con, resolved.names[k]), ".img")

\* the fields of the atlas dictionary the constructor of its source kind
\* reads: Atlas.__init__ (lines 86-92) and the subclass (lines 1069-1106,
\* 1399-1410, 1482-1488, 1645-1652)
ConstructorReads(d) ==
    LET source == d[Field.source].s[1]
    IN {Field.atlasname, Field.source, Field.manifold}
       \cup (IF Field.sourcefiles \in DOMAIN d THEN {Field.sourcenames} ELSE {})
       \cup (CASE source = "freesurfer" -> {Field.fname, Field.regions}
               [] source = "fsl" -> {Field.probthresh, Field.regions}
               [] source = "sigsurf" ->
                      {Field.hemi, Field.file, <<"t", "h", "r", "e", "s", "h">>,
                       Field.minsize}
               [] source = "label" ->
                      {Field.hemi,
                       <<"s", "o", "u", "r", "c", "e", "l", "e", "v", "e", "l">>}
               [] OTHER -> {})

(* C28: every atlas dictionary cfg.atlases accepts for a source kind can be *)
(* made into an atlas object by init_atlas: every field the constructor of  *)
(* the kind reads is a mandatory field of the kind or is added while the    *)
(* dictionary is resolved.                                                  *)
C28_Constructible ==
    (resolved # NoAtlas /\ resolved.err = "")
        => ConstructorReads(resolved.d) \subseteq DOMAIN resolved.d

(* C29: in every state reached by init_paradigm, init_subject and           *)
(* init_analysis calls on an atlas, if the analysis flag is set then the    *)
(* output paths of the extraction (functxt, funcstats, funcvol) name the    *)
(* subject the atlas is set to, so that extract() never passes its          *)
(* InitError guard with paths of a subject initialised before.              *)
C29_PathsOfSubject ==
    (atlasobj # NoAtlas /\ inits.analysis # "") => inits.asubject = inits.subject

\* the entries of the history that carry the name
EntriesOf(hist, name) ==
    {hist.d[i] : i \in {j \in DOMAIN hist.d : hist.d[j][1] = name}}

(* C30: a build_database call for the database name D leaves every other    *)
(* database as it was: the history entries (name and date), the primary    *)
(* file and the archive files of every name other than D are the same      *)
(* before and after the call, whether the history held no, one or several  *)
(* entries before; and the history never holds two entries of one name.    *)
C30_OthersUntouched ==
    [][/\ \A n \in DOMAIN dbfiles :
              n # lastcall'.name
                  => /\ dbfiles'[n] = dbfiles[n]
                     /\ \A dt \in Dates : archive'[<<n, dt>>] = archive[<<n, dt>>]
                     /\ EntriesOf(histfile', n) = EntriesOf(histfile, n)
       /\ \A i, j \in DOMAIN histfile'.d :
              histfile'.d[i][1] = histfile'.d[j][1] => i = j]_vars

\* the last call wrote a database whose name joined a history of several
\* other names
C30_Witness ==
    /\ histfile.nd = 2
    /\ Len(histfile.d) >= 3
    /\ lastcall.err = ""
    /\ lastcall.name = histfile.d[Len(histfile.d)][1]
    /\ lastcall.date = histfile.d[Len(histfile.d)][2]
    /\ dbfiles[histfile.d[1][1]].exists

====
